---- MODULE Spec2Model ----
(***************************************************************************)
(* RentSeekerBot: the per-user dialogue (session table, callback and       *)
(* free-text handlers), the filter model (buildFilters and its helpers)    *)
(* and the search with filter relaxation (searchProperties over            *)
(* database.GetProperties).                                                *)
(*                                                                         *)
(* Go strings are modelled as sequences of one-character strings, so that  *)
(* strings.Split, strings.TrimSpace, strconv.Atoi and SQL LOWER() are      *)
(* computed character by character.  Go maps are functions whose DOMAIN    *)
(* is the set of keys present.  The session table maps an identifier to    *)
(* the UserState object it points to; the table never re-points a key to   *)
(* another object, so the object is stored in place of the pointer.        *)
(***************************************************************************)
EXTENDS Integers, Sequences, FiniteSets, TLC

VARIABLES
    state,       \* Bot.state: identifier -> UserState (keys present only)
    ev,          \* the event handled last (NoEvent before the first one)
    sent,        \* the outbound messages of the handler that ran last
    lastSearch,  \* the searchProperties call made last (NoSearch if none)
    store,       \* the rows of table properties, in rowid order
    nEvents,     \* number of events handled so far
    gor,         \* goroutines of the concurrent view: position and locals
    snap,        \* session table when the current concurrent round began
    fatal,       \* the Go runtime aborted the process (concurrent map write)
    saved,       \* table user_preferences: user id -> saved record
    mu,          \* Bot.mu: the goroutine holding the lock (0: nobody)
    hung,        \* goroutines stuck for good in a storage or transport call
    listings     \* table saved_listings: rows <<user id, property id>>

vars == <<state, ev, sent, lastSearch, store, nEvents, gor, snap, fatal,
          saved, mu, hung, listings>>

-----------------------------------------------------------------------------
(* Bounds of the model *)

\* events handled in one behaviour of the dialogue
MaxEvents == 4

\* listings in the store of one search
MaxListings == 2

\* concurrent rounds (two goroutines each) in one behaviour
MaxRounds == 2

-----------------------------------------------------------------------------
(* Strings *)

Digits == <<"0", "1", "2", "3", "4", "5", "6", "7", "8", "9">>

UpperCase == <<"A", "B", "C", "D", "E", "F", "G", "H", "I", "J", "K", "L", "M",
               "N", "O", "P", "Q", "R", "S", "T", "U", "V", "W", "X", "Y", "Z">>

LowerCase == <<"a", "b", "c", "d", "e", "f", "g", "h", "i", "j", "k", "l", "m",
               "n", "o", "p", "q", "r", "s", "t", "u", "v", "w", "x", "y", "z">>

IsDigit(c) == \E i \in 1..10 : Digits[i] = c

DigitVal(c) == (CHOOSE i \in 1..10 : Digits[i] = c) - 1

\* the lower-case letter of each upper-case ASCII letter
ToLower == [c \in {UpperCase[i] : i \in 1..26} |->
               LowerCase[CHOOSE i \in 1..26 : UpperCase[i] = c]]

\* SQL LOWER() on one character: ASCII letters only
LowerChar(c) == IF c \in DOMAIN ToLower THEN ToLower[c] ELSE c

\* SQL LOWER(s)
Lower(s) == [i \in 1..Len(s) |-> LowerChar(s[i])]

\* strings.TrimSpace
RECURSIVE TrimLeft(_)
TrimLeft(s) == IF s # << >> /\ Head(s) = " " THEN TrimLeft(Tail(s)) ELSE s

RECURSIVE TrimRight(_)
TrimRight(s) ==
    IF s # << >> /\ s[Len(s)] = " " THEN TrimRight(SubSeq(s, 1, Len(s) - 1)) ELSE s

TrimSpace(s) == TrimRight(TrimLeft(s))

\* strings.Split(s, sep) for a one-character separator: the parts between
\* the separators, one more part than there are separators
RECURSIVE SplitFrom(_, _, _)
SplitFrom(s, sep, cur) ==
    IF s = << >> THEN <<cur>>
    ELSE IF Head(s) = sep THEN <<cur>> \o SplitFrom(Tail(s), sep, << >>)
    ELSE SplitFrom(Tail(s), sep, Append(cur, Head(s)))

Split(s, sep) == SplitFrom(s, sep, << >>)

\* value of a string of digits
RECURSIVE DigitsVal(_)
DigitsVal(s) ==
    IF s = << >> THEN 0
    ELSE 10 * DigitsVal(SubSeq(s, 1, Len(s) - 1)) + DigitVal(s[Len(s)])

AllDigits(s) == s # << >> /\ \A i \in 1..Len(s) : IsDigit(s[i])

\* strconv.Atoi: an optional sign followed by one or more decimal digits
AtoiOk(s) ==
    /\ s # << >>
    /\ IF Head(s) \in {"+", "-"} THEN AllDigits(Tail(s)) ELSE AllDigits(s)

AtoiVal(s) ==
    IF Head(s) = "-" THEN 0 - DigitsVal(Tail(s))
    ELSE IF Head(s) = "+" THEN DigitsVal(Tail(s))
    ELSE DigitsVal(s)

-----------------------------------------------------------------------------
(* String literals used by the program and by the inputs of the model *)

Flat        == <<"F", "l", "a", "t">>
House       == <<"H", "o", "u", "s", "e">>
Studio      == <<"S", "t", "u", "d", "i", "o">>
Bed1        == <<"1">>
Bed2        == <<"2">>
Bed3        == <<"3">>
Bed4        == <<"4">>
Bed5Plus    == <<"5", "+">>
Furnished   == <<"F", "u", "r", "n", "i", "s", "h", "e", "d">>
Unfurnished == <<"U", "n", "f", "u", "r", "n", "i", "s", "h", "e", "d">>
Bath        == <<"B", "a", "t", "h">>
BathLower   == <<"b", "a", "t", "h">>
Bristol     == <<"B", "r", "i", "s", "t", "o", "l">>
Done        == <<"d", "o", "n", "e">>
Txt500to1000 == <<"5", "0", "0", "-", "1", "0", "0", "0">>
TxtAbc      == <<"a", "b", "c">>
TxtHalf     == <<"5", "0", "0", "-">>
Txt1000to500  == <<"1", "0", "0", "0", "-", "5", "0", "0">>
Txt0to1000    == <<"0", "-", "1", "0", "0", "0">>
Txt500        == <<"5", "0", "0">>
TxtAbcDef     == <<"a", "b", "c", "-", "d", "e", "f">>
TxtMinus2000  == <<"-", "2", "0", "0", "0">>
TxtSpaced     == <<"5", "0", "0", " ", "-", " ", "1", "0", "0", "0">>
TxtThreeParts == <<"5", "-", "1", "0", "-", "1", "5">>
CentralBath   == <<"C", "e", "n", "t", "r", "a", "l", " ", "B", "a", "t", "h">>
BathUpper     == <<"B", "A", "T", "H">>
Bat           == <<"B", "a", "t">>
LabelX        == <<"x">>
Txt2000000Abc == <<"2", "0", "0", "0", "0", "0", "0", "-", "a", "b", "c">>
TxtAbc2000    == <<"a", "b", "c", "-", "2", "0", "0", "0">>
TxtSpacedReversed == <<" ", "2", "0", "0", "0", " ", "-", " ", "1", "0", "0", "0", " ">>
TxtNegatives  == <<"-", "1", "0", "0", "0", "-", "-", "5", "0", "0">>

\* an empty Go map
EmptyMap == [x \in {} |-> FALSE]

\* m[k] of a map[string]bool: the zero value false for an absent key
MapGet(m, k) == k \in DOMAIN m /\ m[k]

\* m[k] = v
MapPut(m, k, v) == [x \in (DOMAIN m) \cup {k} |-> IF x = k THEN v ELSE m[x]]

\* delete(m, k)
MapDelete(m, k) == [x \in (DOMAIN m) \ {k} |-> m[x]]

-----------------------------------------------------------------------------
(* Filter model: internal/bot/search.go *)

\* NewFlexibleSearchPreferences: three empty maps, empty price range and
\* location
NewFlexibleSearchPreferences ==
    [PropertyTypes    |-> EmptyMap,
     BedroomOptions   |-> EmptyMap,
     FurnishedOptions |-> EmptyMap,
     PriceRange       |-> << >>,
     Location         |-> << >>]

\* faulty variant: every label of the map is returned, selected or not
getSelectedOptionsAll(options) == DOMAIN options

\* the labels mapped to true (a slice in map order; the order is never used)
getSelectedOptions(options) == {k \in DOMAIN options : options[k]}

\* faulty variant: the error of strconv.Atoi is dropped and its zero result
\* appended
getSelectedBedroomOptionsNoErr(options) ==
    {IF k = Studio \/ ~AtoiOk(k) THEN 0 ELSE AtoiVal(k) :
        k \in {x \in DOMAIN options : options[x]}}

\* "Studio" gives 0, a label strconv.Atoi accepts gives its value, any other
\* selected label is skipped
getSelectedBedroomOptions(options) ==
    {IF k = Studio THEN 0 ELSE AtoiVal(k) :
        k \in {x \in DOMAIN options : options[x] /\ (x = Studio \/ AtoiOk(x))}}

DefaultMin == 0

DefaultMax == 1000000

\* faulty variant: the two values are returned as entered
parsePriceRangeNoSwap(priceRange) ==
    LET parts == Split(priceRange, "-") IN
    IF Len(parts) # 2 THEN <<DefaultMin, DefaultMax>>
    ELSE <<IF AtoiOk(TrimSpace(parts[1])) THEN AtoiVal(TrimSpace(parts[1]))
           ELSE DefaultMin,
           IF AtoiOk(TrimSpace(parts[2])) THEN AtoiVal(TrimSpace(parts[2]))
           ELSE DefaultMax>>

parsePriceRange(priceRange) ==
    LET parts == Split(priceRange, "-") IN
    IF Len(parts) # 2 THEN <<DefaultMin, DefaultMax>>
    ELSE LET lo  == TrimSpace(parts[1])
             hi  == TrimSpace(parts[2])
             min == IF AtoiOk(lo) THEN AtoiVal(lo) ELSE DefaultMin
             max == IF AtoiOk(hi) THEN AtoiVal(hi) ELSE DefaultMax
         IN  IF min > max THEN <<max, min>> ELSE <<min, max>>

\* filters[key] = value when the condition of the surrounding if holds
setFilter(filters, cond, key, value) ==
    IF cond THEN MapPut(filters, key, value) ELSE filters

buildFilters(preferences) ==
    LET types     == getSelectedOptions(preferences.PropertyTypes)
        bedrooms  == getSelectedBedroomOptions(preferences.BedroomOptions)
        range     == parsePriceRange(preferences.PriceRange)
        priced    == preferences.PriceRange # << >>
        furnished == getSelectedOptions(preferences.FurnishedOptions)
    IN  MapPut(
          setFilter(
            setFilter(
              setFilter(
                setFilter(
                  setFilter(EmptyMap, types # {}, "types", types),
                  bedrooms # {}, "bedrooms", bedrooms),
                priced /\ range[1] > 0, "min_price", range[1]),
              priced /\ range[2] > 0, "max_price", range[2]),
            Cardinality(furnished) = 1, "furnished", furnished = {Furnished}),
          "location", Bath)

-----------------------------------------------------------------------------
(* Listing store: internal/database/database.go *)

\* The rows table properties can hold.  A row is identified by its rowid;
\* the variable store and the results of a query hold rowids, and Row(id)
\* is the row.  The core never changes a row.
Listing(id, type, price, bedrooms, furnished, location) ==
    [ID |-> id, Type |-> type, PricePerMonth |-> price, Bedrooms |-> bedrooms,
     Furnished |-> furnished, Location |-> location]

Catalogue ==
    <<Listing(1, Flat,  800,  2, TRUE,  Bath),
      Listing(2, House, 800,  3, TRUE,  Bath),
      Listing(3, House, 1500, 2, TRUE,  Bath),
      Listing(4, Flat,  800,  2, FALSE, Bath),
      Listing(5, Flat,  800,  2, TRUE,  Bristol),
      Listing(6, House, 2000, 3, FALSE, BathLower),
      Listing(7, Flat,  900,  1, TRUE,  Bath)>>

Row(id) == Catalogue[id]

\* the WHERE clause GetProperties builds from the filter keys it recognises
RowMatches(p, filters) ==
    /\ ("types" \in DOMAIN filters /\ filters["types"] # {})
          => \E t \in filters["types"] : Lower(p.Type) = Lower(t)
    /\ "min_price" \in DOMAIN filters => p.PricePerMonth >= filters["min_price"]
    /\ "max_price" \in DOMAIN filters => p.PricePerMonth <= filters["max_price"]
    /\ ("bedrooms" \in DOMAIN filters /\ filters["bedrooms"] # {})
          => p.Bedrooms \in filters["bedrooms"]
    /\ "location" \in DOMAIN filters => Lower(p.Location) = Lower(filters["location"])
    /\ "furnished" \in DOMAIN filters => p.Furnished = filters["furnished"]

\* the rows of a successful query, in rowid order; rows and result are
\* sequences of rowids
GetProperties(rows, filters) ==
    LET Test(id) == RowMatches(Row(id), filters) IN SelectSeq(rows, Test)

-----------------------------------------------------------------------------
(* Search with relaxation: internal/bot/search.go *)

\* faulty variant: the location is relaxed as a fifth step
relaxationStepsWithLocation ==
    <<"bedrooms", "types", "price", "furnished", "location">>

relaxationSteps == <<"bedrooms", "types", "price", "furnished">>

\* The outcome of one searchProperties call: the filters of the queries it
\* issued, in order, the listings returned, whether it returned an error,
\* and the selection set its argument points to as the call leaves it.
\* failAt is the storage: the number of the query that fails (0: none does).
SearchOutcome(preferences, failAt, queries, props, err) ==
    [ran |-> TRUE, failAt |-> failAt, queries |-> queries, props |-> props,
     err |-> err, preferences |-> preferences]

\* faulty variant: a failed re-query is taken for an empty result and the loop goes on
RECURSIVE RelaxOnError(_, _, _, _, _, _)
RelaxOnError(preferences, filters, steps, queries, rows, failAt) ==
    IF steps = << >> THEN SearchOutcome(preferences, failAt, queries, << >>, FALSE)
    ELSE LET relaxed == MapDelete(filters, Head(steps))
             issued  == Append(queries, relaxed)
             properties == IF failAt = Len(issued) THEN << >>
                           ELSE GetProperties(rows, relaxed)
         IN  IF Len(properties) > 0
             THEN SearchOutcome(preferences, failAt, issued, properties, FALSE)
             ELSE RelaxOnError(preferences, relaxed, Tail(steps), issued, rows, failAt)

\* faulty variant: a step whose key is not in the filter issues no query
RECURSIVE RelaxSkipAbsent(_, _, _, _, _, _)
RelaxSkipAbsent(preferences, filters, steps, queries, rows, failAt) ==
    IF steps = << >> THEN SearchOutcome(preferences, failAt, queries, << >>, FALSE)
    ELSE IF Head(steps) \notin DOMAIN filters
    THEN RelaxSkipAbsent(preferences, filters, Tail(steps), queries, rows, failAt)
    ELSE LET relaxed == MapDelete(filters, Head(steps))
             issued  == Append(queries, relaxed)
         IN  IF failAt = Len(issued)
             THEN SearchOutcome(preferences, failAt, issued, << >>, TRUE)
             ELSE LET properties == GetProperties(rows, relaxed) IN
                  IF Len(properties) > 0
                  THEN SearchOutcome(preferences, failAt, issued, properties, FALSE)
                  ELSE RelaxSkipAbsent(preferences, relaxed, Tail(steps), issued,
                                       rows, failAt)

\* the selection set without the choices of one relaxation step
ClearDimension(preferences, step) ==
    CASE step = "bedrooms"  -> [preferences EXCEPT !.BedroomOptions = EmptyMap]
      [] step = "types"     -> [preferences EXCEPT !.PropertyTypes = EmptyMap]
      [] step = "price"     -> [preferences EXCEPT !.PriceRange = << >>]
      [] step = "furnished" -> [preferences EXCEPT !.FurnishedOptions = EmptyMap]
      [] OTHER              -> preferences

\* faulty variant: a relaxed step is also removed from the selection set
RECURSIVE RelaxInPlace(_, _, _, _, _, _)
RelaxInPlace(preferences, filters, steps, queries, rows, failAt) ==
    IF steps = << >> THEN SearchOutcome(preferences, failAt, queries, << >>, FALSE)
    ELSE LET relaxed == MapDelete(filters, Head(steps))
             issued  == Append(queries, relaxed)
             left    == ClearDimension(preferences, Head(steps))
         IN  IF failAt = Len(issued)
             THEN SearchOutcome(left, failAt, issued, << >>, TRUE)
             ELSE LET properties == GetProperties(rows, relaxed) IN
                  IF Len(properties) > 0
                  THEN SearchOutcome(left, failAt, issued, properties, FALSE)
                  ELSE RelaxInPlace(left, relaxed, Tail(steps), issued, rows, failAt)

\* the loop over relaxationSteps
RECURSIVE Relax(_, _, _, _, _, _)
Relax(preferences, filters, steps, queries, rows, failAt) ==
    IF steps = << >> THEN SearchOutcome(preferences, failAt, queries, << >>, FALSE)
    ELSE LET relaxed == MapDelete(filters, Head(steps))
             issued  == Append(queries, relaxed)
         IN  IF failAt = Len(issued)
             THEN SearchOutcome(preferences, failAt, issued, << >>, TRUE)
             ELSE LET properties == GetProperties(rows, relaxed) IN
                  IF Len(properties) > 0
                  THEN SearchOutcome(preferences, failAt, issued, properties, FALSE)
                  ELSE Relax(preferences, relaxed, Tail(steps), issued, rows, failAt)

\* searchProperties from the filter on: the initial query and, when it is
\* empty, the relaxation loop
searchFilters(preferences, filters, rows, failAt) ==
    IF failAt = 1
    THEN SearchOutcome(preferences, failAt, <<filters>>, << >>, TRUE)
    ELSE LET properties == GetProperties(rows, filters) IN
         IF Len(properties) = 0
         THEN Relax(preferences, filters, relaxationSteps, <<filters>>, rows, failAt)
         ELSE SearchOutcome(preferences, failAt, <<filters>>, properties, FALSE)

searchProperties(preferences, rows, failAt) ==
    searchFilters(preferences, buildFilters(preferences), rows, failAt)

NoSearch ==
    [ran |-> FALSE, failAt |-> 0, queries |-> << >>, props |-> << >>,
     err |-> FALSE, preferences |-> NewFlexibleSearchPreferences]

-----------------------------------------------------------------------------
(* Session table: Bot.state, getUserState, updateUserState *)

stageAwaitingPriceRange   == "awaiting_price_range"
stageAwaitingLocation     == "awaiting_location"
stageAwaitingPropertyType == "awaiting_property_type"
stageAwaitingBedrooms     == "awaiting_bedrooms"
stageAwaitingFurnished    == "awaiting_furnished"

\* the UserState getUserState creates for an identifier it has not seen
NewUserState == [Stage |-> "initial", Preferences |-> NewFlexibleSearchPreferences]

\* faulty variant: every lookup stores a new UserState
getUserStateReset(tbl, userID) ==
    [k \in (DOMAIN tbl) \cup {userID} |->
        IF k = userID THEN NewUserState ELSE tbl[k]]

\* getUserState, under b.mu: the entry of userID, created when absent.
\* The result is the table; the pointer returned is the entry of userID.
getUserState(tbl, userID) ==
    IF userID \in DOMAIN tbl THEN tbl
    ELSE [k \in (DOMAIN tbl) \cup {userID} |->
            IF k = userID THEN NewUserState ELSE tbl[k]]

\* updateUserState(userID, ptr), under b.mu: b.state[userID] = ptr, where
\* ptr is the object of table entry `of`
updateUserState(tbl, userID, of) ==
    [k \in (DOMAIN tbl) \cup {userID} |-> IF k = userID THEN tbl[of] ELSE tbl[k]]

\* updateMultiSelectOption and the inline toggles: options[option] = !options[option]
updateMultiSelectOption(options, option) ==
    MapPut(options, option, ~MapGet(options, option))

-----------------------------------------------------------------------------
(* Outbound messages.  A handler context is the session table, the messages *)
(* sent so far and the last search: [state, sent, search].                  *)

Msg(chatID, kind) == [chat |-> chatID, kind |-> kind, id |-> 0]

\* b.sendMessage / b.api.Send
sendMessage(ctx, chatID, kind) ==
    [ctx EXCEPT !.sent = Append(@, Msg(chatID, kind))]

\* b.answerCallbackQuery: the acknowledgement of a callback, addressed to
\* the query and not to a chat
answerCallbackQuery(ctx) ==
    [ctx EXCEPT !.sent = Append(@, Msg(0, "callback_answer"))]

\* one message per listing, with its Save/Delete button
RECURSIVE presentMultipleProperties(_, _, _)
presentMultipleProperties(ctx, chatID, properties) ==
    IF properties = << >> THEN ctx
    ELSE presentMultipleProperties(
            [ctx EXCEPT !.sent = Append(@, [chat |-> chatID, kind |-> "listing",
                                            id |-> Row(Head(properties)).ID])],
            chatID, Tail(properties))

Min(a, b) == IF a < b THEN a ELSE b

\* faulty variant: the third batch presents every listing after the fifth
presentSearchResultsRest(ctx, chatID, properties) ==
    LET n == Len(properties) IN
    IF n = 0 THEN sendMessage(ctx, chatID, "no_match")
    ELSE
      LET c1 == presentMultipleProperties(ctx, chatID, SubSeq(properties, 1, Min(3, n)))
          c2 == IF n > 3
                THEN presentMultipleProperties(
                        sendMessage(c1, chatID, "hours_passed"), chatID,
                        SubSeq(properties, 4, 3 + Min(2, n - 3)))
                ELSE c1
          c3 == IF n > 5
                THEN presentMultipleProperties(
                        sendMessage(sendMessage(c2, chatID, "day_passed"),
                                    chatID, "alert"),
                        chatID, SubSeq(properties, 6, n))
                ELSE c2
      IN  sendMessage(c3, chatID, "thats_all")

\* presentSearchResults: three batches of listings and a closing message
presentSearchResults(ctx, chatID, properties) ==
    LET n == Len(properties) IN
    IF n = 0 THEN sendMessage(ctx, chatID, "no_match")
    ELSE
      LET c1 == presentMultipleProperties(ctx, chatID, SubSeq(properties, 1, Min(3, n)))
          c2 == IF n > 3
                THEN presentMultipleProperties(
                        sendMessage(c1, chatID, "hours_passed"), chatID,
                        SubSeq(properties, 4, 3 + Min(2, n - 3)))
                ELSE c1
          c3 == IF n > 5
                THEN presentMultipleProperties(
                        sendMessage(sendMessage(c2, chatID, "day_passed"),
                                    chatID, "alert"),
                        chatID, SubSeq(properties, n, n))
                ELSE c2
      IN  sendMessage(c3, chatID, "thats_all")

-----------------------------------------------------------------------------
(* The questions of the dialogue: each looks its session up under the      *)
(* identifier it is given, which the handlers take from the chat.          *)

withState(ctx, userID) == [ctx EXCEPT !.state = getUserState(@, userID)]

setStage(ctx, userID, stage) == [ctx EXCEPT !.state[userID].Stage = stage]

askPropertyType(ctx, chatID) ==
    LET c1 == withState(ctx, chatID)
        c2 == IF DOMAIN c1.state[chatID].Preferences.PropertyTypes = {}
              THEN [c1 EXCEPT !.state[chatID].Preferences.PropertyTypes =
                        [x \in {Flat, House} |-> FALSE]]
              ELSE c1
        c3 == sendMessage(c2, chatID, "ask_property_type")
    IN  setStage(c3, chatID, stageAwaitingPropertyType)

askPriceRange(ctx, chatID) ==
    sendMessage(setStage(withState(ctx, chatID), chatID, stageAwaitingPriceRange),
                chatID, "ask_price_range")

askBedrooms(ctx, chatID) ==
    LET c1 == withState(ctx, chatID)
        c2 == IF DOMAIN c1.state[chatID].Preferences.BedroomOptions = {}
              THEN [c1 EXCEPT !.state[chatID].Preferences.BedroomOptions =
                        [x \in {Studio, Bed1, Bed2, Bed3, Bed4, Bed5Plus} |-> FALSE]]
              ELSE c1
        c3 == sendMessage(c2, chatID, "ask_bedrooms")
    IN  setStage(c3, chatID, stageAwaitingBedrooms)

askFurnished(ctx, chatID) ==
    LET c1 == withState(ctx, chatID)
        c2 == IF DOMAIN c1.state[chatID].Preferences.FurnishedOptions = {}
              THEN [c1 EXCEPT !.state[chatID].Preferences.FurnishedOptions =
                        [x \in {Furnished, Unfurnished} |-> FALSE]]
              ELSE c1
        c3 == sendMessage(c2, chatID, "ask_furnished")
    IN  setStage(c3, chatID, stageAwaitingFurnished)

askLocation(ctx, chatID) ==
    sendMessage(setStage(withState(ctx, chatID), chatID, stageAwaitingLocation),
                chatID, "ask_location")

startNewSearch(ctx, chatID) ==
    askPropertyType(sendMessage(ctx, chatID, "search_intro"), chatID)

\* faulty variant: a failed search is reported as a search without a match
showSearchOutcomeSilent(ctx, chatID, r) ==
    sendMessage([ctx EXCEPT !.search = r], chatID, "no_match")

\* the end of showSummary: what is sent for the outcome r of the search
showSearchOutcome(ctx, chatID, r) ==
    LET c1 == [ctx EXCEPT !.search = r]
    IN  IF r.err THEN sendMessage(c1, chatID, "search_error")
        ELSE IF Len(r.props) = 0 THEN sendMessage(c1, chatID, "no_match")
        ELSE presentSearchResults(c1, chatID, r.props)

\* b.searchProperties(prefs) of showSummary: prefs is the pointer held by the
\* session of chatID, so the session holds what the call leaves behind
searchSession(ctx, chatID, r) ==
    showSearchOutcome([ctx EXCEPT !.state[chatID].Preferences = r.preferences],
                      chatID, r)

\* faulty variant: the summary also moves the session to showing_summary
showSummaryStaged(ctx, chatID, rows, failAt) ==
    LET c1 == sendMessage(withState(ctx, chatID), chatID, "summary")
    IN  setStage(searchSession(c1, chatID,
                    searchProperties(c1.state[chatID].Preferences, rows, failAt)),
                 chatID, "showing_summary")

\* showSummary: the summary and the search run on the session found under
\* chatID; failAt is the storage's behaviour during this search
showSummary(ctx, chatID, rows, failAt) ==
    LET c1 == sendMessage(withState(ctx, chatID), chatID, "summary")
    IN  searchSession(c1, chatID,
            searchProperties(c1.state[chatID].Preferences, rows, failAt))

-----------------------------------------------------------------------------
(* Saved preference records: table user_preferences of                      *)
(* internal/database/database.go.  A row is keyed by user_id.  Whether a    *)
(* statement on the table succeeds is the storage's behaviour (ctx.db).     *)

\* json.Marshal of a map[string]bool: the object as its set of members
marshalMap(m) == {<<k, m[k]>> : k \in DOMAIN m}

\* json.Unmarshal of such an object into a map[string]bool
unmarshalMap(j) == [k \in {p[1] : p \in j} |-> \E p \in j : p[1] = k /\ p[2]]

\* the "%d" verb of fmt.Sprintf
RECURSIVE FormatInt(_)
FormatInt(n) ==
    IF n < 0 THEN <<"-">> \o FormatInt(0 - n)
    ELSE IF n < 10 THEN <<Digits[n + 1]>>
    ELSE FormatInt(n \div 10) \o <<Digits[(n % 10) + 1]>>

\* the number handleSavePreferences stores for one side of the price range:
\* the zero value of the field unless the range has two parts and the part
\* is an integer
savedPrice(priceRange, i) ==
    IF priceRange # << >> /\ Len(Split(priceRange, "-")) = 2
          /\ AtoiOk(TrimSpace(Split(priceRange, "-")[i]))
    THEN AtoiVal(TrimSpace(Split(priceRange, "-")[i]))
    ELSE 0

\* the database.UserPreferences handleSavePreferences builds from the
\* selection set: the two maps copied, Furnished left as the empty map made
\* for it, the price range parsed
NewUserPreferences(userID, prefs) ==
    [UserID         |-> userID,
     PropertyTypes  |-> [k \in DOMAIN prefs.PropertyTypes |-> prefs.PropertyTypes[k]],
     BedroomOptions |-> [k \in DOMAIN prefs.BedroomOptions |-> prefs.BedroomOptions[k]],
     MinPrice       |-> savedPrice(prefs.PriceRange, 1),
     MaxPrice       |-> savedPrice(prefs.PriceRange, 2),
     Location       |-> prefs.Location,
     Furnished      |-> EmptyMap]

\* SaveUserPreferences, the statement succeeding: INSERT OR REPLACE of the
\* row of prefs.UserID, last_search set to the time of the save.  prefs.Furnished
\* is handed to the driver as it is; whether the driver takes a map as an
\* argument is one of the behaviours of the storage (DbChoices)
SaveUserPreferences(tbl, prefs) ==
    [u \in (DOMAIN tbl) \cup {prefs.UserID} |->
        IF u = prefs.UserID
        THEN [property_type |-> marshalMap(prefs.PropertyTypes),
              min_price     |-> prefs.MinPrice,
              max_price     |-> prefs.MaxPrice,
              bedrooms      |-> marshalMap(prefs.BedroomOptions),
              furnished     |-> prefs.Furnished,
              location      |-> prefs.Location,
              last_search   |-> "now"]
        ELSE tbl[u]]

\* the Go types of the destinations GetUserPreferences passes to Scan, in
\* the order of the columns: &prefs.UserID, &propertyTypesJSON,
\* &prefs.MinPrice, &prefs.MaxPrice, &bedroomOptionsJSON, &prefs.Furnished
\* (a map[string]bool), &prefs.Location, &prefs.LastSearch
ScanDests == <<"int64", "bytes", "int", "int", "bytes", "map", "string", "time">>

\* the types of destination Scan stores a column value into: the values a
\* driver returns are int64, float64, bool, []byte, string and time.Time,
\* and Scan converts among these and the integer types only
Scannable == {"int64", "int", "float64", "bool", "bytes", "string", "time"}

\* faulty variant: a user without a row gets the zero record and no error
GetUserPreferencesErrZero(tbl, userID, db) ==
    IF db # "ok" THEN "storage"
    ELSE IF userID \in DOMAIN tbl
            /\ \E i \in 1..Len(ScanDests) : ScanDests[i] \notin Scannable THEN "scan"
    ELSE "nil"

\* the error of GetUserPreferences: of the query when the storage fails,
\* sql.ErrNoRows when the user has no row, of Scan when a destination cannot
\* take its column, nil otherwise
GetUserPreferencesErr(tbl, userID, db) ==
    IF db # "ok" THEN "storage"
    ELSE IF userID \notin DOMAIN tbl THEN "ErrNoRows"
    ELSE IF \E i \in 1..Len(ScanDests) : ScanDests[i] \notin Scannable THEN "scan"
    ELSE "nil"

\* the record GetUserPreferences returns with a nil error: the row of
\* userID scanned, the two JSON columns unmarshalled
GetUserPreferences(tbl, userID) ==
    [UserID         |-> userID,
     PropertyTypes  |-> unmarshalMap(tbl[userID].property_type),
     BedroomOptions |-> unmarshalMap(tbl[userID].bedrooms),
     MinPrice       |-> tbl[userID].min_price,
     MaxPrice       |-> tbl[userID].max_price,
     Location       |-> tbl[userID].location,
     Furnished      |-> tbl[userID].furnished,
     LastSearch     |-> tbl[userID].last_search]

\* GetUserPreferences returns a record and no error
prefsLoaded(ctx, userID) == GetUserPreferencesErr(ctx.saved, userID, ctx.db) = "nil"

\* DeleteUserPreferences, the statement succeeding
DeleteUserPreferences(tbl, userID) == [u \in (DOMAIN tbl) \ {userID} |-> tbl[u]]

\* the SearchPreferences performSearch builds from a saved record
savedSearchPreferences(prefs) ==
    [PropertyTypes    |-> prefs.PropertyTypes,
     BedroomOptions   |-> prefs.BedroomOptions,
     FurnishedOptions |-> prefs.Furnished,
     PriceRange       |-> FormatInt(prefs.MinPrice) \o <<"-">> \o FormatInt(prefs.MaxPrice),
     Location         |-> prefs.Location]

\* performSearch: the search from a saved record; its outcome is reported
\* as showSummary reports it
performSearch(ctx, chatID, prefs, rows, failAt) ==
    showSearchOutcome(ctx, chatID,
        searchProperties(savedSearchPreferences(prefs), rows, failAt))

-----------------------------------------------------------------------------
(* Event handlers *)

\* database.SaveListing: a reference of the user to the property is
\* inserted unless the pair is already there (INSERT OR IGNORE)
SaveListing(tbl, userID, propertyID) ==
    IF \E i \in 1..Len(tbl) : tbl[i] = <<userID, propertyID>>
    THEN tbl
    ELSE Append(tbl, <<userID, propertyID>>)

\* database.DeleteSavedListing: the references of the pair are deleted
DeleteSavedListing(tbl, userID, propertyID) ==
    LET Keep(r) == r # <<userID, propertyID>> IN SelectSeq(tbl, Keep)

\* database.GetSavedListings: the rows of table properties joined with the
\* references of the user, one result per reference
RECURSIVE GetSavedListings(_, _, _)
GetSavedListings(tbl, rows, userID) ==
    IF tbl = << >> THEN << >>
    ELSE LET Referenced(id) == Head(tbl) = <<userID, id>>
         IN  SelectSeq(rows, Referenced) \o GetSavedListings(Tail(tbl), rows, userID)

\* b.answerCallbackQuery with a text, which the client shows as a notice
answerCallbackQueryText(ctx, text) ==
    [ctx EXCEPT !.sent = Append(@, Msg(0, text))]

\* the handler of save or delete returns before the end of
\* handleCallbackQuery: the data has no second part, the second part is not
\* a number, or the storage returns an error
returnsEarly(ctx, action, arg) ==
    /\ action \in {"save", "delete"}
    /\ arg = << >> \/ ~AtoiOk(arg) \/ ctx.db # "ok"

\* faulty variant: the reference is stored under the chat's identifier
saveListingByChat(ctx, userID, chatID, arg) ==
    IF arg = << >> THEN answerCallbackQueryText(ctx, "answer_invalid_request")
    ELSE IF ~AtoiOk(arg) THEN answerCallbackQueryText(ctx, "answer_invalid_id")
    ELSE IF ctx.db # "ok" THEN answerCallbackQueryText(ctx, "answer_save_error")
    ELSE answerCallbackQueryText(
            sendMessage([ctx EXCEPT !.listings = SaveListing(@, chatID, AtoiVal(arg))],
                        chatID, "edit_saved"),
            "answer_saved")

\* case "save" of handleCallbackQuery
saveListing(ctx, userID, chatID, arg) ==
    IF arg = << >> THEN answerCallbackQueryText(ctx, "answer_invalid_request")
    ELSE IF ~AtoiOk(arg) THEN answerCallbackQueryText(ctx, "answer_invalid_id")
    ELSE IF ctx.db # "ok" THEN answerCallbackQueryText(ctx, "answer_save_error")
    ELSE answerCallbackQueryText(
            sendMessage([ctx EXCEPT !.listings = SaveListing(@, userID, AtoiVal(arg))],
                        chatID, "edit_saved"),
            "answer_saved")

\* case "delete" of handleCallbackQuery
deleteListing(ctx, userID, chatID, arg) ==
    IF arg = << >> THEN answerCallbackQueryText(ctx, "answer_invalid_request")
    ELSE IF ~AtoiOk(arg) THEN answerCallbackQueryText(ctx, "answer_invalid_id")
    ELSE IF ctx.db # "ok" THEN answerCallbackQueryText(ctx, "answer_delete_error")
    ELSE answerCallbackQueryText(
            sendMessage([ctx EXCEPT !.listings =
                            DeleteSavedListing(@, userID, AtoiVal(arg))],
                        chatID, "edit_deleted"),
            "answer_deleted")

\* handleCallbackQuery for callback data "<action>:<arg>" (strings.Split on
\* ":" gives data[0] = action and data[1] = arg)
handleCallbackQuery(ctx, userID, chatID, action, arg, rows, failAt) ==
    LET c0 == withState(ctx, userID)
        prefs == c0.state[userID].Preferences
        c1 ==
          CASE action = "use_saved_prefs" ->
                 IF prefsLoaded(c0, userID)
                 THEN performSearch(c0, chatID,
                        GetUserPreferences(c0.saved, userID), rows, failAt)
                 ELSE startNewSearch(sendMessage(c0, chatID, "prefs_error"), chatID)
            [] action = "start_new_search" -> startNewSearch(c0, chatID)
            [] action = "start_preferences" -> askPropertyType(c0, chatID)
            [] action = "property_type" ->
                 IF arg = Done THEN askBedrooms(c0, chatID)
                 ELSE sendMessage(
                        [c0 EXCEPT !.state[userID].Preferences.PropertyTypes =
                            updateMultiSelectOption(prefs.PropertyTypes, arg)],
                        chatID, "edit_markup")
            [] action = "bedrooms" ->
                 IF arg = Done THEN askPriceRange(c0, chatID)
                 ELSE sendMessage(
                        [c0 EXCEPT !.state[userID].Preferences.BedroomOptions =
                            updateMultiSelectOption(prefs.BedroomOptions, arg)],
                        chatID, "edit_markup")
            [] action = "furnished" ->
                 IF arg = Done THEN askLocation(c0, chatID)
                 ELSE sendMessage(
                        [c0 EXCEPT !.state[userID].Preferences.FurnishedOptions =
                            updateMultiSelectOption(prefs.FurnishedOptions, arg)],
                        chatID, "edit_markup")
            [] action = "location" ->
                 IF arg = Bath
                 THEN showSummary(
                        [c0 EXCEPT !.state[userID].Preferences.Location = Bath,
                                   !.state[userID].Stage = "showing_summary"],
                        chatID, rows, failAt)
                 ELSE c0
            [] action = "save" -> saveListing(c0, userID, chatID, arg)
            [] action = "noop" -> answerCallbackQuery(c0)
            [] action = "delete" -> deleteListing(c0, userID, chatID, arg)
            [] OTHER -> c0
        c2 == [c1 EXCEPT !.state = updateUserState(@, userID, userID)]
    IN  IF returnsEarly(c0, action, arg)
        THEN (IF action = "save" THEN saveListing(c0, userID, chatID, arg)
              ELSE deleteListing(c0, userID, chatID, arg))
        ELSE answerCallbackQuery(c2)

\* faulty variant: the parts are parsed as they are, blanks included
validatePriceRangeNoTrim(input) ==
    LET parts == Split(input, "-") IN
    /\ Len(parts) = 2
    /\ AtoiOk(parts[1])
    /\ AtoiOk(parts[2])

\* faulty variant: only the number of parts is checked
validatePriceRangePartsOnly(input) == Len(Split(input, "-")) = 2

\* validatePriceRange: two parts around "-", each an integer once trimmed
validatePriceRange(input) ==
    LET parts == Split(input, "-") IN
    /\ Len(parts) = 2
    /\ AtoiOk(TrimSpace(parts[1]))
    /\ AtoiOk(TrimSpace(parts[2]))

\* faulty variant: every stage but awaiting_price_range is handled as awaiting_location
textBranchNoDefault(stage) ==
    IF stage = stageAwaitingPriceRange THEN "price" ELSE "location"

\* the switch on state.Stage of handleRegularMessage
textBranch(stage) ==
    CASE stage = stageAwaitingPriceRange -> "price"
      [] stage = stageAwaitingLocation -> "location"
      [] OTHER -> "default"

\* handleRegularMessage: a message that is not a command
handleRegularMessage(ctx, userID, chatID, text, rows, failAt) ==
    LET c0 == withState(ctx, userID)
        branch == textBranch(c0.state[userID].Stage)
    IN  CASE branch = "price" ->
               IF validatePriceRange(text)
               THEN LET c1 == askFurnished(
                                [c0 EXCEPT !.state[userID].Preferences.PriceRange = text],
                                chatID)
                    IN  [c1 EXCEPT !.state = updateUserState(@, userID, userID)]
               ELSE sendMessage(c0, chatID, "invalid_price_range")
          [] branch = "location" ->
               LET c1 == showSummary(
                            [c0 EXCEPT !.state[userID].Preferences.Location = text],
                            chatID, rows, failAt)
               IN  [c1 EXCEPT !.state = updateUserState(@, userID, userID)]
          [] OTHER ->
               LET c1 == sendMessage(c0, chatID, "not_understood")
               IN  [c1 EXCEPT !.state = updateUserState(@, userID, userID)]

-----------------------------------------------------------------------------
(* Command handlers *)

\* handleSearchCommand: the choice between reuse and a new search when a
\* saved record with a last-search time is loaded, a new search otherwise
handleSearchCommand(ctx, userID, chatID) ==
    IF prefsLoaded(ctx, userID)
          /\ GetUserPreferences(ctx.saved, userID).LastSearch # "zero"
    THEN sendMessage(ctx, chatID, "saved_prefs_choice")
    ELSE startNewSearch(ctx, chatID)

\* the session found under userID, saved as a record of userID
saveSelection(ctx, userID) ==
    [ctx EXCEPT !.saved = SaveUserPreferences(@,
                    NewUserPreferences(userID, ctx.state[userID].Preferences))]

\* faulty variant: the record is stored under the chat's identifier
handleSavePreferencesByChat(ctx, userID, chatID) ==
    IF ctx.db = "ok"
    THEN sendMessage(saveSelection(withState(ctx, chatID), chatID), chatID, "save_ok")
    ELSE sendMessage(withState(ctx, chatID), chatID, "save_error")

handleSavePreferences(ctx, userID, chatID) ==
    IF ctx.db = "ok"
    THEN sendMessage(saveSelection(withState(ctx, userID), userID), chatID, "save_ok")
    ELSE sendMessage(withState(ctx, userID), chatID, "save_error")

handleViewPreferences(ctx, userID, chatID) ==
    IF prefsLoaded(ctx, userID)
    THEN sendMessage(ctx, chatID, "view_prefs")
    ELSE sendMessage(ctx, chatID, "no_prefs_yet")

handleClearPreferences(ctx, userID, chatID) ==
    IF ctx.db = "ok"
    THEN sendMessage([ctx EXCEPT !.saved = DeleteUserPreferences(@, userID)],
                     chatID, "clear_ok")
    ELSE sendMessage(ctx, chatID, "clear_error")

\* handleViewSavedListings: the saved listings of the user, each with its
\* Delete button
handleViewSavedListings(ctx, userID, chatID, rows) ==
    IF ctx.db # "ok" THEN sendMessage(ctx, chatID, "saved_error")
    ELSE IF GetSavedListings(ctx.listings, rows, userID) = << >>
    THEN sendMessage(ctx, chatID, "no_saved_yet")
    ELSE presentMultipleProperties(sendMessage(ctx, chatID, "saved_intro"), chatID,
                                   GetSavedListings(ctx.listings, rows, userID))

\* handleCommand, for the commands of the inputs (see CommandInputs)
handleCommand(ctx, userID, chatID, command, rows) ==
    CASE command = "start" -> sendMessage(ctx, chatID, "welcome")
      [] command = "help" -> sendMessage(ctx, chatID, "help")
      [] command = "search" -> handleSearchCommand(ctx, userID, chatID)
      [] command = "save_preferences" -> handleSavePreferences(ctx, userID, chatID)
      [] command = "view_preferences" -> handleViewPreferences(ctx, userID, chatID)
      [] command = "clear_preferences" -> handleClearPreferences(ctx, userID, chatID)
      [] command = "saved" -> handleViewSavedListings(ctx, userID, chatID, rows)
      [] OTHER -> sendMessage(ctx, chatID, "unknown_command")

-----------------------------------------------------------------------------
(* Inputs of the model *)

\* the users who write to the bot
Users == {1}

\* a group chat; a private chat has the identifier of its user
GroupChat == 2

ChatsOf(u) == {u, GroupChat}

\* callback data the keyboards of the bot produce (noop is the button of a
\* saved listing), and one the bot never offers (location:Bristol)
Callbacks ==
    {<<"start_new_search", << >> >>, <<"start_preferences", << >> >>,
     <<"property_type", Flat>>, <<"property_type", Done>>,
     <<"bedrooms", Bed2>>, <<"bedrooms", Bed4>>, <<"bedrooms", Done>>,
     <<"furnished", Furnished>>, <<"furnished", Done>>,
     <<"location", Bath>>, <<"location", Bristol>>, <<"noop", << >> >>}

Texts == {Txt500to1000, TxtAbc, TxtHalf}

\* storage behaviours of one search: no failure, or failure of query 1..5
FailChoices == 0..5

\* storage behaviours of a search run from the dialogue: no failure, failure
\* of the initial query, failure of the first re-query
DialogueFailChoices == 0..2

\* the rowids ids in rowid order
RECURSIVE RowsOf(_)
RowsOf(ids) ==
    IF ids = {} THEN << >>
    ELSE LET m == CHOOSE x \in ids : \A y \in ids : x <= y
         IN  <<m>> \o RowsOf(ids \ {m})

Stores == {RowsOf(ids) : ids \in {x \in SUBSET (1..Len(Catalogue)) :
                                      Cardinality(x) <= MaxListings}}

NoEvent == [kind |-> "none", user |-> 0, chat |-> 0, action |-> "", arg |-> << >>,
            db |-> "ok"]

Idle == [pc |-> "idle", user |-> 0, chat |-> 0, action |-> "", arg |-> << >>,
         tmp |-> FALSE]

Goroutines == {1, 2}

-----------------------------------------------------------------------------
(* The dialogue, one event handled to completion at a time *)

Init ==
    /\ state = EmptyMap
    /\ ev = NoEvent
    /\ sent = << >>
    /\ lastSearch = NoSearch
    /\ store = RowsOf(1..Len(Catalogue))
    /\ nEvents = 0
    /\ gor = [g \in Goroutines |-> Idle]
    /\ snap = EmptyMap
    /\ fatal = FALSE
    /\ saved = EmptyMap
    /\ mu = 0
    /\ hung = {}
    /\ listings = << >>

\* The handler context of an event: the session table, no message sent yet,
\* the last search, tables user_preferences and saved_listings, and db, the
\* behaviour of the storage of these tables during the event ("ok" or
\* "error").
Ctx == [state |-> state, sent |-> << >>, search |-> lastSearch,
        saved |-> saved, db |-> "ok", listings |-> listings]

Apply(ctx, e) ==
    /\ state' = ctx.state
    /\ sent' = ctx.sent
    /\ lastSearch' = ctx.search
    /\ ev' = e
    /\ nEvents' = nEvents + 1
    /\ saved' = ctx.saved
    /\ listings' = ctx.listings
    /\ UNCHANGED <<store, gor, snap, fatal, mu, hung>>

\* whether the handler of a callback runs a search
CallbackSearches(action, arg) == action = "location" /\ arg = Bath

HandleCallback ==
    /\ nEvents < MaxEvents
    /\ \E u \in Users, c \in Callbacks :
       \E ch \in ChatsOf(u) :
       \E f \in (IF CallbackSearches(c[1], c[2]) THEN DialogueFailChoices ELSE {0}) :
          Apply(handleCallbackQuery(Ctx, u, ch, c[1], c[2], store, f),
                [kind |-> "callback", user |-> u, chat |-> ch,
                 action |-> c[1], arg |-> c[2], db |-> "ok"])

\* whether the handler of a text message runs a search
TextSearches(u) == u \in DOMAIN state /\ state[u].Stage = stageAwaitingLocation

HandleText ==
    /\ nEvents < MaxEvents
    /\ \E u \in Users, t \in Texts :
       \E ch \in ChatsOf(u) :
       \E f \in (IF TextSearches(u) THEN DialogueFailChoices ELSE {0}) :
          Apply(handleRegularMessage(Ctx, u, ch, t, store, f),
                [kind |-> "text", user |-> u, chat |-> ch,
                 action |-> "", arg |-> t, db |-> "ok"])

Next == HandleCallback \/ HandleText

Spec == Init /\ [][Next]_vars

-----------------------------------------------------------------------------
(* One pass of the dialogue: after some events of the dialogue the user    *)
(* sends the six events of a search, in one chat, each handled before the  *)
(* next is sent.  The handler of an event that was received runs to its    *)
(* end: every call it makes returns.                                       *)

\* events of the dialogue handled before the pass begins
MaxPrefix == 2

\* the events of the pass, in the order they are sent
Pass ==
    <<[kind |-> "callback", action |-> "start_new_search", arg |-> << >>],
      [kind |-> "callback", action |-> "property_type", arg |-> Done],
      [kind |-> "callback", action |-> "bedrooms", arg |-> Done],
      [kind |-> "text", action |-> "", arg |-> Txt500to1000],
      [kind |-> "callback", action |-> "furnished", arg |-> Done],
      [kind |-> "callback", action |-> "location", arg |-> Bath]>>

\* the number of events of the pass handled so far
PassPos == IF "pass" \in DOMAIN ev THEN ev.pass ELSE 0

\* an event of the dialogue before the pass
PassPrefix ==
    /\ PassPos = 0
    /\ nEvents < MaxPrefix
    /\ (HandleCallback \/ HandleText)

\* the handler of the next event of the pass; sent collects the messages of
\* the whole pass
PassStep ==
    /\ PassPos < Len(Pass)
    /\ \E u \in Users :
       \E ch \in (IF PassPos = 0 THEN ChatsOf(u) ELSE {ev.chat}) :
       LET e == Pass[PassPos + 1]
           c == [Ctx EXCEPT !.sent = IF PassPos = 0 THEN << >> ELSE sent]
       IN  \E f \in (IF e.kind = "text"
                      THEN (IF TextSearches(u) THEN DialogueFailChoices ELSE {0})
                      ELSE (IF CallbackSearches(e.action, e.arg)
                            THEN DialogueFailChoices ELSE {0})) :
              Apply(IF e.kind = "text"
                    THEN handleRegularMessage(c, u, ch, e.arg, store, f)
                    ELSE handleCallbackQuery(c, u, ch, e.action, e.arg, store, f),
                    [kind |-> e.kind, user |-> u, chat |-> ch,
                     action |-> e.action, arg |-> e.arg, db |-> "ok",
                     pass |-> PassPos + 1])

PassNext == PassPrefix \/ PassStep

SpecPass == Init /\ [][PassNext]_vars /\ WF_vars(PassStep)

-----------------------------------------------------------------------------
(* The dialogue with the commands on saved preferences *)

\* behaviours of the storage of table user_preferences during one event
DbChoices == {"ok", "error"}

\* the commands sent, each with the chat it is sent in and the behaviour of
\* the storage: /search and /save_preferences in the private and in the
\* group chat, the others in the private chat; /foo is a command the bot
\* does not know
CommandInputs(u) ==
    {<<c, ch, d>> : c \in {"search", "save_preferences"}, ch \in ChatsOf(u),
                    d \in DbChoices}
    \cup {<<c, u, d>> : c \in {"clear_preferences", "view_preferences", "saved"},
                        d \in DbChoices}
    \cup {<<"start", u, "ok">>, <<"help", u, "ok">>, <<"foo", u, "ok">>}

HandleCommand ==
    /\ nEvents < MaxEvents
    /\ \E u \in Users : \E i \in CommandInputs(u) :
          Apply(handleCommand([Ctx EXCEPT !.db = i[3]], u, i[2], i[1], store),
                [kind |-> "command", user |-> u, chat |-> i[2],
                 action |-> i[1], arg |-> << >>, db |-> i[3]])

\* the reuse callback, in the private and in the group chat
HandleUseSavedPrefs ==
    /\ nEvents < MaxEvents
    /\ \E u \in Users, d \in DbChoices :
       \E ch \in ChatsOf(u) :
       \E f \in (IF GetUserPreferencesErr(saved, u, d) = "nil"
                 THEN DialogueFailChoices ELSE {0}) :
          Apply(handleCallbackQuery([Ctx EXCEPT !.db = d], u, ch,
                                    "use_saved_prefs", << >>, store, f),
                [kind |-> "callback", user |-> u, chat |-> ch,
                 action |-> "use_saved_prefs", arg |-> << >>, db |-> d])

\* the callbacks that build a selection set, sent in the private chat;
\* start_new_search, the other button of the choice, in the group chat too
PrefCallbacks ==
    {<<"start_new_search", << >> >>, <<"property_type", Flat>>,
     <<"bedrooms", Done>>, <<"furnished", Furnished>>, <<"location", Bath>>}

HandlePrefCallback ==
    /\ nEvents < MaxEvents
    /\ \E u \in Users, c \in PrefCallbacks :
       \E ch \in (IF c[1] = "start_new_search" THEN ChatsOf(u) ELSE {u}) :
       \E f \in (IF CallbackSearches(c[1], c[2]) THEN DialogueFailChoices ELSE {0}) :
          Apply(handleCallbackQuery(Ctx, u, ch, c[1], c[2], store, f),
                [kind |-> "callback", user |-> u, chat |-> ch,
                 action |-> c[1], arg |-> c[2], db |-> "ok"])

\* a price range sent in the private chat
HandlePrefText ==
    /\ nEvents < MaxEvents
    /\ \E u \in Users :
       \E f \in (IF TextSearches(u) THEN DialogueFailChoices ELSE {0}) :
          Apply(handleRegularMessage(Ctx, u, u, Txt500to1000, store, f),
                [kind |-> "text", user |-> u, chat |-> u,
                 action |-> "", arg |-> Txt500to1000, db |-> "ok"])

PrefNext ==
    \/ HandleCommand
    \/ HandleUseSavedPrefs
    \/ HandlePrefCallback
    \/ HandlePrefText

SpecPrefs == Init /\ [][PrefNext]_vars

-----------------------------------------------------------------------------
(* Saved listings: the Save and Delete buttons under a listing and the     *)
(* /saved command                                                          *)

\* the second part of the data of a save or delete callback: the
\* identifiers of two properties of the store, of a property that is not in
\* the store, and a text that is no number
ListingArgs == {<<"1">>, <<"2">>, <<"9">>, <<"x">>}

\* a save or delete callback, in the private or in the group chat
HandleListing ==
    /\ nEvents < MaxEvents
    /\ \E u \in Users, a \in {"save", "delete"}, arg \in ListingArgs,
          d \in DbChoices :
       \E ch \in ChatsOf(u) :
          Apply(handleCallbackQuery([Ctx EXCEPT !.db = d], u, ch, a, arg, store, 0),
                [kind |-> "callback", user |-> u, chat |-> ch,
                 action |-> a, arg |-> arg, db |-> d])

\* the /saved command, in the private chat
HandleSaved ==
    /\ nEvents < MaxEvents
    /\ \E u \in Users, d \in DbChoices :
          Apply(handleCommand([Ctx EXCEPT !.db = d], u, u, "saved", store),
                [kind |-> "command", user |-> u, chat |-> u,
                 action |-> "saved", arg |-> << >>, db |-> d])

ListingsNext ==
    \/ HandleListing
    \/ HandleSaved

SpecListings == Init /\ [][ListingsNext]_vars

-----------------------------------------------------------------------------
(* The functions of internal/bot/search.go and the WHERE clause of         *)
(* GetProperties, each called on its own with an argument of the sets      *)
(* below                                                                   *)

\* furnished selections: nothing offered yet, one label only, and every
\* choice of the two labels the keyboard offers
FurnishedMaps ==
    {EmptyMap, MapPut(EmptyMap, Furnished, TRUE)}
        \cup [{Furnished, Unfurnished} -> BOOLEAN]

\* price-range texts: empty, the cases of TestParsePriceRange, a zero
\* minimum, one side missing, blanks, three parts
PriceTexts ==
    {<< >>, Txt500to1000, Txt1000to500, Txt500, TxtAbcDef, TxtAbc, Txt0to1000,
     TxtHalf, TxtMinus2000, TxtSpaced, TxtThreeParts, Txt2000000Abc,
     TxtAbc2000, TxtNegatives, TxtSpacedReversed}

\* bedroom selections over the labels Studio, 2, 5+ and x
BedroomMaps ==
    {EmptyMap} \cup [{Studio, Bed2, Bed5Plus, LabelX} -> BOOLEAN]

\* selection sets passed to buildFilters
FilterPrefs ==
    [PropertyTypes    : {EmptyMap, MapPut(MapPut(EmptyMap, Flat, TRUE), House, FALSE)},
     BedroomOptions   : {EmptyMap, MapPut(MapPut(EmptyMap, Studio, TRUE), Bed2, TRUE),
                         MapPut(MapPut(EmptyMap, Bed2, FALSE), Bed5Plus, TRUE)},
     FurnishedOptions : FurnishedMaps,
     PriceRange       : {<< >>, Txt500to1000, Txt0to1000, TxtAbc},
     Location         : {<< >>, Bath, Bristol}]

\* locations of listings and of filters
ProbeLocations == {Bath, BathLower, BathUpper, CentralBath, Bristol, Bat}

\* one call of a function: its name, its argument and its result
FnCall(name, arg, out) ==
    [kind |-> "call", user |-> 0, chat |-> 0, action |-> name, arg |-> arg,
     db |-> "ok", out |-> out]

FnFrame == UNCHANGED <<state, sent, lastSearch, store, nEvents, gor, snap,
                       fatal, saved, mu, hung, listings>>

CallBuildFilters ==
    /\ \E p \in FilterPrefs : ev' = FnCall("buildFilters", p, buildFilters(p))
    /\ FnFrame

CallParsePriceRange ==
    /\ \E t \in PriceTexts : ev' = FnCall("parsePriceRange", t, parsePriceRange(t))
    /\ FnFrame

CallValidatePriceRange ==
    /\ \E t \in PriceTexts :
          ev' = FnCall("validatePriceRange", t, validatePriceRange(t))
    /\ FnFrame

\* result lists: the listings of any part of the catalogue, in rowid order
ResultLists == {RowsOf(ids) : ids \in SUBSET (1..Len(Catalogue))}

\* the messages presentSearchResults sends to the chat of user 1
CallPresentSearchResults ==
    /\ \E r \in ResultLists :
          ev' = FnCall("presentSearchResults", r,
                       presentSearchResults(Ctx, 1, r).sent)
    /\ FnFrame

CallGetSelectedBedroomOptions ==
    /\ \E m \in BedroomMaps :
          ev' = FnCall("getSelectedBedroomOptions", m, getSelectedBedroomOptions(m))
    /\ FnFrame

\* the WHERE clause for a filter of the location alone, on a furnished flat
\* at each location
CallRowMatches ==
    /\ \E at \in ProbeLocations, loc \in ProbeLocations :
          ev' = FnCall("RowMatches", <<at, loc>>,
                       RowMatches(Listing(1, Flat, 800, 2, TRUE, at),
                                  MapPut(EmptyMap, "location", loc)))
    /\ FnFrame

CallsNext ==
    \/ CallBuildFilters
    \/ CallParsePriceRange
    \/ CallValidatePriceRange
    \/ CallPresentSearchResults
    \/ CallGetSelectedBedroomOptions
    \/ CallRowMatches

SpecCalls == Init /\ [][CallsNext]_vars

-----------------------------------------------------------------------------
(* The functions of package database on table user_preferences, called     *)
(* one after the other as TestUserPreferences calls them                   *)

\* the users whose records are saved, loaded and deleted
DbUsers == {1, 2}

\* the records passed to SaveUserPreferences
DbPrefs(u) ==
    {[UserID         |-> u,
      PropertyTypes  |-> pt,
      BedroomOptions |-> MapPut(MapPut(EmptyMap, Bed2, TRUE), Bed3, TRUE),
      MinPrice       |-> pr[1],
      MaxPrice       |-> pr[2],
      Location       |-> Bath,
      Furnished      |-> fu] :
        pt \in {EmptyMap, MapPut(MapPut(EmptyMap, Flat, TRUE), House, FALSE)},
        pr \in {<<0, 0>>, <<1000, 2000>>},
        fu \in {EmptyMap, MapPut(EmptyMap, Furnished, TRUE)}}

\* one call of a function of package database: its name, its arguments and
\* the error it returned
DbCall(name, u, arg, d, err) ==
    [kind |-> "db", user |-> u, chat |-> u, action |-> name, arg |-> arg,
     db |-> d, err |-> err]

DbFrame == UNCHANGED <<state, sent, lastSearch, store, gor, snap, fatal, mu,
                       hung, listings>>

CallSaveUserPreferences ==
    /\ nEvents < MaxEvents
    /\ \E u \in DbUsers, d \in DbChoices : \E p \in DbPrefs(u) :
          /\ saved' = IF d = "ok" THEN SaveUserPreferences(saved, p) ELSE saved
          /\ ev' = DbCall("SaveUserPreferences", u, p, d,
                          IF d = "ok" THEN "nil" ELSE "storage")
    /\ nEvents' = nEvents + 1
    /\ DbFrame

CallGetUserPreferences ==
    /\ nEvents < MaxEvents
    /\ \E u \in DbUsers, d \in DbChoices :
          ev' = DbCall("GetUserPreferences", u, << >>, d,
                       GetUserPreferencesErr(saved, u, d))
    /\ nEvents' = nEvents + 1
    /\ UNCHANGED saved
    /\ DbFrame

CallDeleteUserPreferences ==
    /\ nEvents < MaxEvents
    /\ \E u \in DbUsers, d \in DbChoices :
          /\ saved' = IF d = "ok" THEN DeleteUserPreferences(saved, u) ELSE saved
          /\ ev' = DbCall("DeleteUserPreferences", u, << >>, d,
                          IF d = "ok" THEN "nil" ELSE "storage")
    /\ nEvents' = nEvents + 1
    /\ DbFrame

DbNext ==
    \/ CallSaveUserPreferences
    \/ CallGetUserPreferences
    \/ CallDeleteUserPreferences

SpecDb == Init /\ [][DbNext]_vars

-----------------------------------------------------------------------------
(* One search over a store of the catalogue's listings *)

\* selection sets a dialogue can hold
SearchPrefs ==
    [PropertyTypes    : [{Flat, House} -> BOOLEAN],
     BedroomOptions   : [{Bed2, Bed3} -> BOOLEAN],
     FurnishedOptions : [{Furnished, Unfurnished} -> BOOLEAN],
     PriceRange       : {<< >>, Txt500to1000},
     Location         : {<< >>, Bath}]

SearchInit ==
    /\ state = EmptyMap
    /\ ev = NoEvent
    /\ sent = << >>
    /\ lastSearch = NoSearch
    /\ store \in Stores
    /\ nEvents = 0
    /\ gor = [g \in Goroutines |-> Idle]
    /\ snap = EmptyMap
    /\ fatal = FALSE
    /\ saved = EmptyMap
    /\ mu = 0
    /\ hung = {}
    /\ listings = << >>

DoSearch ==
    /\ ~lastSearch.ran
    /\ \E p \in SearchPrefs, f \in FailChoices :
          lastSearch' = searchProperties(p, store, f)
    /\ UNCHANGED <<state, ev, sent, store, nEvents, gor, snap, fatal,
                   saved, mu, hung, listings>>

SearchNext == DoSearch

SpecSearch == SearchInit /\ [][SearchNext]_vars

-----------------------------------------------------------------------------
(* Properties of the search *)

\* the filter keys of a dimension of the search
DimensionKeys(dim) == IF dim = "price" THEN {"min_price", "max_price"} ELSE {dim}

\* the order in which the dimensions are to be relaxed
RelaxationOrder == <<"bedrooms", "types", "price", "furnished">>

\* the filter keys of the first k dimensions of the relaxation order
DroppedKeys(k) == UNION {DimensionKeys(RelaxationOrder[i]) : i \in 1..k}

\* filter f without the keys ks
Without(f, ks) == [x \in (DOMAIN f) \ ks |-> f[x]]

\* C1: after an empty initial query the dimensions bedrooms, types, price,
\* furnished are dropped cumulatively, one per re-query, in this order: query
\* number i carries the initial filter less the first i-1 dimensions, every
\* query but the last was empty, and the result of the last query is returned
\* (an empty one only when all four steps are exhausted).
C1_RelaxationOrder ==
    lastSearch.ran =>
        LET qs == lastSearch.queries IN
        /\ \A i \in 1..Len(qs) : qs[i] = Without(qs[1], DroppedKeys(i - 1))
        /\ \A i \in 1..(Len(qs) - 1) : GetProperties(store, qs[i]) = << >>
        /\ ~lastSearch.err =>
              /\ lastSearch.props = GetProperties(store, qs[Len(qs)])
              /\ lastSearch.props = << >> => Len(qs) = Len(RelaxationOrder) + 1

\* C2: the third re-query (query number 4) carries neither the minimum-price
\* nor the maximum-price constraint, so a search that got that far and whose
\* store holds a listing in the filter's location that satisfies the furnished
\* constraint returns listings.
C2_PriceDroppedTogether ==
    (lastSearch.ran /\ ~lastSearch.err /\ Len(lastSearch.queries) >= 4) =>
        LET q4 == lastSearch.queries[4] IN
        /\ "min_price" \notin DOMAIN q4
        /\ "max_price" \notin DOMAIN q4
        /\ (\E i \in 1..Len(store) :
               RowMatches(Row(store[i]), Without(q4, {"min_price", "max_price"})))
              => lastSearch.props # << >>

\* C8: a storage error on query number k makes the search return the error
\* with no listings, query k being the last one issued; the queries before it
\* were all empty (only an empty result leads to a re-query).
C8_ErrorStopsSearch ==
    lastSearch.ran =>
        LET qs == lastSearch.queries IN
        /\ lastSearch.err =>
              /\ lastSearch.props = << >>
              /\ Len(qs) = lastSearch.failAt
              /\ \A i \in 1..(Len(qs) - 1) : GetProperties(store, qs[i]) = << >>
        /\ lastSearch.failAt \in 1..Len(qs) => lastSearch.err

\* a re-query failed: the error was returned after three queries
C8_Witness ==
    lastSearch.ran /\ lastSearch.err /\ lastSearch.failAt = 3
    /\ Len(lastSearch.queries) = 3 /\ lastSearch.props = << >>

\* C9: every query of a search carries the location constraint of the initial
\* filter, and every listing returned lies in that location.
C9_LocationNeverRelaxed ==
    lastSearch.ran =>
        LET qs == lastSearch.queries IN
        /\ \A i \in 1..Len(qs) :
              /\ "location" \in DOMAIN qs[i]
              /\ qs[i]["location"] = qs[1]["location"]
        /\ \A i \in 1..Len(lastSearch.props) :
              Lower(Row(lastSearch.props[i]).Location) = Lower(qs[1]["location"])

\* all four relaxation steps ran over a store that holds a listing elsewhere,
\* and the last re-query returned listings
C9_Witness ==
    /\ lastSearch.ran
    /\ Len(lastSearch.queries) = 5
    /\ lastSearch.props # << >>
    /\ \E i \in 1..Len(store) : Row(store[i]).Location = Bristol

\* C30: a search issues at most five queries, the initial one and one for
\* each relaxation step; when no query fails and none returns a listing it
\* issues exactly five, whatever keys the filter had, and returns the empty
\* list and no error.
C30_FiveQueriesAtMost ==
    lastSearch.ran =>
        /\ Len(lastSearch.queries) \in 1..5
        /\ (~lastSearch.err /\ lastSearch.props = << >>)
              => Len(lastSearch.queries) = 5
        /\ (lastSearch.failAt = 0
               /\ \A i \in 1..Len(lastSearch.queries) :
                     GetProperties(store, lastSearch.queries[i]) = << >>)
              => /\ Len(lastSearch.queries) = 5
                 /\ ~lastSearch.err
                 /\ lastSearch.props = << >>

\* five queries were issued for a filter of the location alone
C30_Witness ==
    /\ lastSearch.ran /\ ~lastSearch.err
    /\ lastSearch.props = << >>
    /\ Len(lastSearch.queries) = 5
    /\ DOMAIN lastSearch.queries[1] = {"location"}

-----------------------------------------------------------------------------
(* Properties of the dialogue *)

\* every identifier a session can be stored under
Keys == Users \cup {GroupChat}

\* the session of an identifier: the one the table holds, or the one
\* getUserState would create
SessionOf(tbl, k) == IF k \in DOMAIN tbl THEN tbl[k] ELSE NewUserState

StageOf(tbl, k) == SessionOf(tbl, k).Stage

\* an event was handled in this step
Handled == nEvents' = nEvents + 1

SessionsUnchanged == \A k \in Keys : SessionOf(state', k) = SessionOf(state, k)

IsToggle(e) ==
    /\ e.kind = "callback"
    /\ e.action \in {"property_type", "bedrooms", "furnished"}
    /\ e.arg # Done

IsDone(e, action) == e.kind = "callback" /\ e.action = action /\ e.arg = Done

\* the stage a selection callback belongs to
StageOfAction(action) ==
    CASE action = "property_type" -> stageAwaitingPropertyType
      [] action = "bedrooms" -> stageAwaitingBedrooms
      [] action = "furnished" -> stageAwaitingFurnished
      [] action = "location" -> stageAwaitingLocation

\* a selection callback received in a stage it does not belong to
OutOfStage(tbl, e) ==
    /\ e.kind = "callback"
    /\ \/ e.action \in {"property_type", "bedrooms", "furnished"}
       \/ e.action = "location" /\ e.arg = Bath
    /\ StageOf(tbl, e.user) # StageOfAction(e.action)

\* C4: a toggle, a done signal or location:Bath received in a stage other
\* than its own changes neither the stage nor any selection of any session.
C4_OutOfStageIgnored ==
    [][(Handled /\ OutOfStage(state, ev')) => SessionsUnchanged]_vars

\* C5: each event of the path moves the stage of the user who sent it to the
\* next stage of the path, and a toggle leaves that stage as it was.
C5_StagePath ==
    [][Handled =>
        LET e == ev'
            before == StageOf(state, e.user)
            after == StageOf(state', e.user)
        IN  /\ (e.kind = "callback"
                  /\ e.action \in {"start_new_search", "start_preferences"})
                 => after = stageAwaitingPropertyType
            /\ (IsDone(e, "property_type") /\ before = stageAwaitingPropertyType)
                 => after = stageAwaitingBedrooms
            /\ (IsDone(e, "bedrooms") /\ before = stageAwaitingBedrooms)
                 => after = stageAwaitingPriceRange
            /\ (e.kind = "text" /\ before = stageAwaitingPriceRange
                  /\ validatePriceRange(e.arg))
                 => after = stageAwaitingFurnished
            /\ (IsDone(e, "furnished") /\ before = stageAwaitingFurnished)
                 => after = stageAwaitingLocation
            /\ (e.kind = "callback" /\ e.action = "location" /\ e.arg = Bath
                  /\ before = stageAwaitingLocation)
                 => after = "showing_summary"
            /\ IsToggle(e) => after = before]_vars

\* a text of digits, with or without a leading plus sign
NumberText(s) ==
    LET d == IF s # << >> /\ Head(s) = "+" THEN Tail(s) ELSE s
    IN  d # << >> /\ \A i \in 1..Len(d) : d[i] \in {Digits[j] : j \in 1..10}

\* two integers separated by a single "-", blanks around them allowed
TwoIntegers(text) ==
    \E i \in 1..Len(text) :
        /\ text[i] = "-"
        /\ \A j \in 1..Len(text) : text[j] = "-" => j = i
        /\ NumberText(TrimSpace(SubSeq(text, 1, i - 1)))
        /\ NumberText(TrimSpace(SubSeq(text, i + 1, Len(text))))

\* C6: in awaiting_price_range a text that is not two integers separated by a
\* single "-" changes neither the stage nor the selection set of any session
\* (a price range stored before stays), and the only message sent is the
\* prompt for the format, to the chat of the message.
C6_InvalidPriceKeepsState ==
    [][(Handled /\ ev'.kind = "text"
          /\ StageOf(state, ev'.user) = stageAwaitingPriceRange
          /\ ~TwoIntegers(ev'.arg))
        => /\ SessionsUnchanged
           /\ sent' = <<Msg(ev'.chat, "invalid_price_range")>>]_vars

\* "abc" was rejected in awaiting_price_range while a price range entered
\* earlier is stored
C6_Witness ==
    /\ ev.kind = "text" /\ ev.arg = TxtAbc
    /\ sent = <<Msg(ev.chat, "invalid_price_range")>>
    /\ StageOf(state, ev.user) = stageAwaitingPriceRange
    /\ SessionOf(state, ev.user).Preferences.PriceRange = Txt500to1000

\* C7: a text received in a stage other than awaiting_price_range and
\* awaiting_location gets the not-understood reply and nothing else, and
\* changes neither the stage nor the selection set of any session.
C7_UnexpectedTextIgnored ==
    [][(Handled /\ ev'.kind = "text"
          /\ StageOf(state, ev'.user)
                \notin {stageAwaitingPriceRange, stageAwaitingLocation})
        => /\ SessionsUnchanged
           /\ sent' = <<Msg(ev'.chat, "not_understood")>>]_vars

\* a text was answered with not-understood in awaiting_bedrooms, the
\* selections made before still in place
C7_Witness ==
    /\ ev.kind = "text"
    /\ sent = <<Msg(ev.chat, "not_understood")>>
    /\ StageOf(state, ev.user) = stageAwaitingBedrooms
    /\ MapGet(SessionOf(state, ev.user).Preferences.PropertyTypes, Flat)

\* C10: an event changes only the session stored under the identifier of the
\* user who sent it: every other key keeps its session, and no key that is
\* not that user's is added to the table.
C10_OnlySenderSession ==
    [][Handled =>
        \A k \in Keys \ {ev'.user} :
            /\ (k \in DOMAIN state') = (k \in DOMAIN state)
            /\ k \in DOMAIN state => state'[k] = state[k]]_vars

-----------------------------------------------------------------------------
(* Properties of the dialogue: the summary, the replies, saved preferences *)

\* C13: a text received in awaiting_location in the user's private chat is
\* stored as the location, and the stage of the user is showing_summary when
\* the handler, which runs the search, is done.
C13_LocationTextAdvances ==
    [][(Handled /\ ev'.kind = "text" /\ ev'.chat = ev'.user
          /\ StageOf(state, ev'.user) = stageAwaitingLocation)
        => /\ SessionOf(state', ev'.user).Preferences.Location = ev'.arg
           /\ StageOf(state', ev'.user) = "showing_summary"]_vars

\* C31: a text received in awaiting_location is stored as the location of
\* the sender's session, the summary is sent to the chat and a search is run
\* on the session of the chat, and the stage of the sender is still
\* awaiting_location when the handler is done.
C31_LocationTextKeepsStage ==
    [][(Handled /\ ev'.kind = "text"
          /\ StageOf(state, ev'.user) = stageAwaitingLocation)
        => /\ SessionOf(state', ev'.user).Preferences.Location = ev'.arg
           /\ Len(sent') >= 2 /\ sent'[1] = Msg(ev'.chat, "summary")
           /\ \E f \in DialogueFailChoices :
                 lastSearch' = searchProperties(
                                  SessionOf(state', ev'.chat).Preferences, store, f)
           /\ StageOf(state', ev'.user) = stageAwaitingLocation]_vars

\* a text was taken as the location in the private chat, the search ran and
\* the stage is awaiting_location
C31_Witness ==
    /\ ev.kind = "text" /\ ev.chat = ev.user
    /\ StageOf(state, ev.user) = stageAwaitingLocation
    /\ SessionOf(state, ev.user).Preferences.Location = ev.arg
    /\ lastSearch.ran
    /\ Len(sent) >= 2 /\ sent[1] = Msg(ev.chat, "summary")

\* the preference record of the sender of e is loaded by the handler of e
Loaded(e) == GetUserPreferencesErr(saved, e.user, e.db) = "nil"

\* an event that starts a search session: start_new_search,
\* start_preferences, or /search when no saved record is loaded
SessionStart(e) ==
    \/ e.kind = "callback" /\ e.action \in {"start_new_search", "start_preferences"}
    \/ e.kind = "command" /\ e.action = "search" /\ ~Loaded(e)

\* C14: an event sent in the user's private chat that is not a session
\* start leaves a stage of showing_summary at showing_summary.
C14_SummaryIsTerminal ==
    [][(Handled /\ ev'.chat = ev'.user /\ ~SessionStart(ev')
          /\ StageOf(state, ev'.user) = "showing_summary")
        => StageOf(state', ev'.user) = "showing_summary"]_vars

\* C15: the handler of every event sends at least one message to the chat
\* of the event (the acknowledgement of a callback carries no text and goes
\* to no chat).
C15_NeverSilent ==
    [][Handled =>
        \E i \in 1..Len(sent') :
            sent'[i].chat = ev'.chat /\ sent'[i].kind # "callback_answer"]_vars

\* the handler of e runs a search
Searches(e) ==
    \/ e.kind = "callback" /\ e.action = "location" /\ e.arg = Bath
    \/ e.kind = "callback" /\ e.action = "use_saved_prefs" /\ Loaded(e)
    \/ e.kind = "text" /\ StageOf(state, e.user) = stageAwaitingLocation

\* C35: a handler that runs a search leaves the selection set and the stage
\* of every session as they were, but for what the handler itself assigns
\* (the location and, for location:Bath, the stage of the sender), also when
\* the search relaxed its filter; the first query of the search is the
\* full filter of the selection set the searched session still holds.
C35_SearchLeavesSessions ==
    [][(Handled /\ Searches(ev'))
        => /\ \A k \in Keys :
                 /\ SessionOf(state', k).Preferences =
                       [SessionOf(state, k).Preferences EXCEPT
                           !.Location = IF k = ev'.user THEN ev'.arg ELSE @]
                 /\ StageOf(state', k) =
                       (IF k = ev'.user /\ ev'.kind = "callback"
                        THEN "showing_summary" ELSE StageOf(state, k))
           /\ lastSearch'.queries[1] =
                 buildFilters(SessionOf(state', ev'.chat).Preferences)]_vars

\* a dialogue search found nothing for four bedrooms, dropped the bedrooms
\* key and returned listings; the session still holds the choice
C35_Witness ==
    /\ ev.kind = "callback" /\ ev.action = "location" /\ ev.arg = Bath
    /\ ev.chat = ev.user
    /\ lastSearch.ran /\ ~lastSearch.err
    /\ Len(lastSearch.queries) = 2 /\ lastSearch.props # << >>
    /\ "bedrooms" \in DOMAIN lastSearch.queries[1]
    /\ MapGet(SessionOf(state, ev.user).Preferences.BedroomOptions, Bed4)

\* the options selected in a map of options
Chosen(options) == {k \in DOMAIN options : options[k]}

\* the selections of a session: chosen options, price range and location
Selection(s) ==
    [types     |-> Chosen(s.Preferences.PropertyTypes),
     bedrooms  |-> Chosen(s.Preferences.BedroomOptions),
     furnished |-> Chosen(s.Preferences.FurnishedOptions),
     price     |-> s.Preferences.PriceRange,
     location  |-> s.Preferences.Location]

\* C37: start_new_search, start_preferences and /search without a saved
\* record loaded leave the stage of the user at awaiting_property_type and
\* the selections of the user's session as they were.
C37_NewSearchKeepsSelection ==
    [][(Handled /\ SessionStart(ev'))
        => /\ StageOf(state', ev'.user) = stageAwaitingPropertyType
           /\ Selection(SessionOf(state', ev'.user)) =
                 Selection(SessionOf(state, ev'.user))]_vars

\* C37 for events sent in the private chat of the user
C37_PrivateChat ==
    [][(Handled /\ SessionStart(ev') /\ ev'.chat = ev'.user)
        => /\ StageOf(state', ev'.user) = stageAwaitingPropertyType
           /\ Selection(SessionOf(state', ev'.user)) =
                 Selection(SessionOf(state, ev'.user))]_vars

\* a new search was started in the private chat over a session that holds a
\* chosen property type and a price range
C37_PrivateWitness ==
    /\ ev.kind = "callback" /\ ev.action = "start_new_search" /\ ev.chat = ev.user
    /\ StageOf(state, ev.user) = stageAwaitingPropertyType
    /\ Selection(SessionOf(state, ev.user)).types = {Flat}
    /\ Selection(SessionOf(state, ev.user)).price = Txt500to1000

\* the commands handleCommand has a case for
KnownCommands ==
    {"start", "help", "search", "save_preferences", "view_preferences",
     "clear_preferences", "saved"}

\* C38: every command but /search, and /search sent while a record of the
\* user is stored and the storage answers, leaves every existing session as
\* it was; a command the bot does not know is answered with the
\* unknown-command reply alone.
C38_CommandsKeepSessions ==
    [][(Handled /\ ev'.kind = "command"
          /\ (ev'.action = "search" => (ev'.user \in DOMAIN saved /\ ev'.db = "ok")))
        => /\ \A k \in DOMAIN state : k \in DOMAIN state' /\ state'[k] = state[k]
           /\ ev'.action \notin KnownCommands
                 => sent' = <<Msg(ev'.chat, "unknown_command")>>]_vars

\* C38 without /search
C38_OtherCommands ==
    [][(Handled /\ ev'.kind = "command" /\ ev'.action # "search")
        => /\ \A k \in DOMAIN state : k \in DOMAIN state' /\ state'[k] = state[k]
           /\ ev'.action \notin KnownCommands
                 => sent' = <<Msg(ev'.chat, "unknown_command")>>]_vars

\* the positions of the messages of a kind in a sequence of messages
Positions(msgs, kind) == {i \in 1..Len(msgs) : msgs[i].kind = kind}

\* the searches run during the pass: showSummary sends one summary for each
SearchesOfPass == Cardinality(Positions(sent, "summary"))

\* C39: when the six events of a pass have been handled, the stage of the
\* user is showing_summary and one search has been run during the pass.
C39_PassEndsInSummary ==
    PassPos = Len(Pass) =>
        /\ StageOf(state, ev.user) = "showing_summary"
        /\ SearchesOfPass = 1

\* C39 for a pass sent in the private chat of the user
C39_PrivatePass ==
    (PassPos = Len(Pass) /\ ev.chat = ev.user) =>
        /\ StageOf(state, ev.user) = "showing_summary"
        /\ SearchesOfPass = 1

\* the stage at the end of a pass, in whatever chat it was sent
C39_StageAtEnd ==
    PassPos = Len(Pass) => StageOf(state, ev.user) = "showing_summary"

\* C16: when the search of the summary or of the reuse of a saved record
\* fails, the try-again-later message is sent to the chat, and no listing,
\* no-match message or end-of-results message is sent.
C16_SearchErrorReported ==
    [][(Handled /\ Searches(ev') /\ lastSearch'.err)
        => /\ \E i \in 1..Len(sent') : sent'[i] = Msg(ev'.chat, "search_error")
           /\ \A i \in 1..Len(sent') :
                 sent'[i].kind \notin {"listing", "no_match", "thats_all",
                                       "hours_passed", "day_passed", "alert"}]_vars

\* the search of the summary failed and was reported
C16_Witness ==
    /\ ev.kind = "callback" /\ ev.action = "location" /\ ev.arg = Bath
    /\ lastSearch.ran /\ lastSearch.err
    /\ \E i \in 1..Len(sent) : sent[i] = Msg(ev.chat, "search_error")

\* C17: /search and use_saved_prefs, when no saved record is loaded (none is
\* stored, or the storage fails), send the property-type question to the
\* chat and leave the stage of the user at awaiting_property_type.
C17_FallbackStartsNewSearch ==
    [][(Handled /\ ~Loaded(ev')
          /\ \/ ev'.kind = "command" /\ ev'.action = "search"
             \/ ev'.kind = "callback" /\ ev'.action = "use_saved_prefs")
        => /\ \E i \in 1..Len(sent') : sent'[i] = Msg(ev'.chat, "ask_property_type")
           /\ StageOf(state', ev'.user) = stageAwaitingPropertyType]_vars

\* C18: with a saved record loaded, /search offers the choice and changes no
\* session; use_saved_prefs runs a search of the filter built from the
\* record, asks no question and changes no session; start_new_search leaves
\* the stage of the user at awaiting_property_type.
C18_ReuseOrDiscard ==
    [][Handled =>
        /\ (ev'.kind = "command" /\ ev'.action = "search" /\ Loaded(ev'))
              => /\ sent' = <<Msg(ev'.chat, "saved_prefs_choice")>>
                 /\ SessionsUnchanged
        /\ (ev'.kind = "callback" /\ ev'.action = "use_saved_prefs" /\ Loaded(ev'))
              => /\ lastSearch'.ran
                 /\ lastSearch'.queries[1] =
                       buildFilters(savedSearchPreferences(
                           GetUserPreferences(saved, ev'.user)))
                 /\ \A i \in 1..Len(sent') :
                       sent'[i].kind \notin {"search_intro", "ask_property_type"}
                 /\ SessionsUnchanged
        /\ (ev'.kind = "callback" /\ ev'.action = "start_new_search")
              => StageOf(state', ev'.user) = stageAwaitingPropertyType]_vars

\* C19: after a save that the storage accepts, the saved record of the user
\* loads, and the filter built from it is the filter built from the user's
\* selection set.
C19_SavedFilterEqualsLive ==
    [][(Handled /\ ev'.kind = "command" /\ ev'.action = "save_preferences"
          /\ ev'.db = "ok")
        => /\ ev'.user \in DOMAIN saved'
           /\ GetUserPreferencesErr(saved', ev'.user, "ok") = "nil"
           /\ buildFilters(savedSearchPreferences(
                   GetUserPreferences(saved', ev'.user)))
                = buildFilters(SessionOf(state', ev'.user).Preferences)]_vars

\* the saved record of identifier k differs between tables t1 and t2
RecordDiffers(t1, t2, k) ==
    \/ (k \in DOMAIN t1) # (k \in DOMAIN t2)
    \/ k \in DOMAIN t1 /\ k \in DOMAIN t2 /\ t1[k] # t2[k]

\* C20: the saved record of an identifier changes only in the handler of a
\* /save_preferences or /clear_preferences command of the user with that
\* identifier.
C20_RecordChangesOnlyBySaveOrClear ==
    [][Handled =>
        \A k \in Keys :
            RecordDiffers(saved, saved', k)
              => /\ ev'.kind = "command"
                 /\ ev'.action \in {"save_preferences", "clear_preferences"}
                 /\ ev'.user = k]_vars

\* a property type was toggled after a save: the record still holds the
\* selection of the time of the save
C20_Witness ==
    /\ ev.kind = "callback" /\ ev.action = "property_type"
    /\ ev.user \in DOMAIN saved
    /\ MapGet(state[ev.user].Preferences.PropertyTypes, Flat)
    /\ ~MapGet(unmarshalMap(saved[ev.user].property_type), Flat)

\* C21: after a call of SaveUserPreferences that returns no error, a call
\* of GetUserPreferences for the same user returns no error and a record
\* with the property types, bedroom options, furnished options, minimum and
\* maximum price and location of the record saved (one row per user: the
\* table is keyed by user_id).
C21_SaveLoadRoundTrip ==
    [][(Handled /\ ev'.kind = "db" /\ ev'.action = "SaveUserPreferences"
          /\ ev'.err = "nil")
        => /\ GetUserPreferencesErr(saved', ev'.user, "ok") = "nil"
           /\ GetUserPreferences(saved', ev'.user).PropertyTypes = ev'.arg.PropertyTypes
           /\ GetUserPreferences(saved', ev'.user).BedroomOptions = ev'.arg.BedroomOptions
           /\ GetUserPreferences(saved', ev'.user).Furnished = ev'.arg.Furnished
           /\ GetUserPreferences(saved', ev'.user).MinPrice = ev'.arg.MinPrice
           /\ GetUserPreferences(saved', ev'.user).MaxPrice = ev'.arg.MaxPrice
           /\ GetUserPreferences(saved', ev'.user).Location = ev'.arg.Location]_vars

\* the number of references of user u to property l in table tbl
RECURSIVE References(_, _, _)
References(tbl, u, l) ==
    IF tbl = << >> THEN 0
    ELSE (IF Head(tbl) = <<u, l>> THEN 1 ELSE 0) + References(Tail(tbl), u, l)

Called(name) == ev.kind = "call" /\ ev.action = name

\* the labels among Furnished and Unfurnished that a selection maps to true
FurnishedChosen(prefs) ==
    {k \in {Furnished, Unfurnished} : MapGet(prefs.FurnishedOptions, k)}

C25_BothPriceKeys ==
    Called("buildFilters") =>
        IF ev.arg.PriceRange # << >>
        THEN /\ "min_price" \in DOMAIN ev.out
             /\ "max_price" \in DOMAIN ev.out
             /\ <<ev.out["min_price"], ev.out["max_price"]>>
                   = parsePriceRange(ev.arg.PriceRange)
        ELSE "min_price" \notin DOMAIN ev.out /\ "max_price" \notin DOMAIN ev.out

\* C26: the filter of buildFilters has the key location, with the location
\* of the selection set when one is stored and Bath when none is.
C26_LocationOfSelection ==
    Called("buildFilters") =>
        /\ "location" \in DOMAIN ev.out
        /\ ev.out["location"] =
              (IF ev.arg.Location # << >> THEN ev.arg.Location ELSE Bath)

\* text s contains text sub
Contains(s, sub) ==
    \E i \in 0..(Len(s) - Len(sub)) : SubSeq(s, i + 1, i + Len(sub)) = sub

\* C27: a listing satisfies a filter of the location exactly when its
\* location contains the location of the filter, letter case ignored.
C27_LocationContainment ==
    Called("RowMatches") =>
        (ev.out <=> Contains(Lower(ev.arg[1]), Lower(ev.arg[2])))

\* the positions of "-" in a text
Dashes(text) == {i \in 1..Len(text) : text[i] = "-"}

\* the integer written on one side of the single "-" of a text
SideValue(text, first) ==
    LET i == CHOOSE j \in Dashes(text) : TRUE
        side == TrimSpace(IF first THEN SubSeq(text, 1, i - 1)
                          ELSE SubSeq(text, i + 1, Len(text)))
    IN  DigitsVal(IF Head(side) = "+" THEN Tail(side) ELSE side)

\* C28: parsePriceRange returns (0, 1000000) for a text that does not have
\* exactly one "-", and for two integers separated by one "-" the smaller
\* one first and the larger one second.
C28_ParsePriceRange ==
    Called("parsePriceRange") =>
        /\ Cardinality(Dashes(ev.arg)) # 1 => ev.out = <<0, 1000000>>
        /\ TwoIntegers(ev.arg)
              => LET a == SideValue(ev.arg, TRUE)
                     b == SideValue(ev.arg, FALSE)
                 IN  ev.out = <<IF a < b THEN a ELSE b, IF a < b THEN b ELSE a>>

\* the reversed range of TestParsePriceRange
C28_Witness ==
    /\ Called("parsePriceRange")
    /\ ev.arg = Txt1000to500
    /\ ev.out = <<500, 1000>>

\* a label that is a number followed by "+"
PlusLabel(k) == Len(k) >= 2 /\ k[Len(k)] = "+" /\ AllDigits(SubSeq(k, 1, Len(k) - 1))

\* the labels of this form selected in a map of options
PlusChosen(options) == {k \in DOMAIN options : options[k] /\ PlusLabel(k)}

\* C33: getSelectedBedroomOptions returns the number of every selected label
\* that is a number followed by "+", and buildFilters sets the bedrooms key
\* for a selection set in which such a label is selected.
C33_PlusLabelCounts ==
    /\ Called("getSelectedBedroomOptions") =>
          \A k \in PlusChosen(ev.arg) :
              DigitsVal(SubSeq(k, 1, Len(k) - 1)) \in ev.out
    /\ Called("buildFilters") =>
          (PlusChosen(ev.arg.BedroomOptions) # {} => "bedrooms" \in DOMAIN ev.out)

\* one side of the single "-" of a text, trimmed
Side(text, first) ==
    LET i == CHOOSE j \in Dashes(text) : TRUE
    IN  TrimSpace(IF first THEN SubSeq(text, 1, i - 1)
                  ELSE SubSeq(text, i + 1, Len(text)))

\* C32: when exactly one side of a text with one "-" is an integer,
\* parsePriceRange returns that integer in the position of its side and the
\* default in the other position (0 first, 1000000 second), without a swap.
C32_DefaultOnlyForFailedSide ==
    (Called("parsePriceRange") /\ Cardinality(Dashes(ev.arg)) = 1) =>
        LET lok == NumberText(Side(ev.arg, TRUE))
            rok == NumberText(Side(ev.arg, FALSE))
        IN  /\ (lok /\ ~rok) => ev.out = <<SideValue(ev.arg, TRUE), 1000000>>
            /\ (~lok /\ rok) => ev.out = <<0, SideValue(ev.arg, FALSE)>>

\* C34: validatePriceRange accepts exactly the texts that are two integers
\* around a single "-", blanks around each allowed and in either order; for
\* a text it accepts, parsePriceRange returns the two integers entered, the
\* smaller first, neither negative and neither replaced by a default.
C34_AcceptedRangeParses ==
    /\ Called("validatePriceRange") => (ev.out <=> TwoIntegers(ev.arg))
    /\ (Called("parsePriceRange") /\ validatePriceRange(ev.arg)) =>
          LET a == SideValue(ev.arg, TRUE)
              b == SideValue(ev.arg, FALSE)
          IN  /\ {ev.out[1], ev.out[2]} = {a, b}
              /\ 0 <= ev.out[1] /\ ev.out[1] <= ev.out[2]

\* the reversed range with blanks is accepted
C34_Witness ==
    /\ Called("validatePriceRange")
    /\ ev.arg = TxtSpacedReversed
    /\ ev.out

\* how many messages present the listing at position i of a result list
TimesPresented(msgs, properties, i) ==
    Cardinality({j \in Positions(msgs, "listing") : msgs[j].id = properties[i]})

\* C36: presentSearchResults sends only the no-match message for an empty
\* list; otherwise it presents the listings at positions 1 to 5 and the last
\* one, each once and in the order of the list, so that positions 6 to n-1
\* are never presented, and ends with exactly one closing message.
C36_StagedPresentation ==
    Called("presentSearchResults") =>
        LET n == Len(ev.arg)
            listed == Positions(ev.out, "listing")
        IN  /\ n = 0 => ev.out = <<Msg(1, "no_match")>>
            /\ n >= 1 =>
                  /\ \A i \in 1..n :
                        TimesPresented(ev.out, ev.arg, i) =
                            (IF i <= 5 \/ i = n THEN 1 ELSE 0)
                  /\ Cardinality(listed) = (IF n <= 6 THEN n ELSE 6)
                  /\ \A j, k \in listed : j < k => ev.out[j].id < ev.out[k].id
                  /\ Positions(ev.out, "thats_all") = {Len(ev.out)}
                  /\ Positions(ev.out, "no_match") = {}
                  /\ \A j \in 1..Len(ev.out) : ev.out[j].chat = 1

\* seven listings: the sixth is not presented, the seventh is
C36_Witness ==
    /\ Called("presentSearchResults")
    /\ Len(ev.arg) = 7
    /\ TimesPresented(ev.out, ev.arg, 6) = 0
    /\ TimesPresented(ev.out, ev.arg, 7) = 1
    /\ ev.out[Len(ev.out)] = Msg(1, "thats_all")

C22_NotFoundAndClear ==
    [][(Handled /\ ev'.kind = "db" /\ ev'.db = "ok") =>
        /\ (ev'.action = "GetUserPreferences" /\ ev'.user \notin DOMAIN saved)
              => ev'.err = "ErrNoRows"
        /\ ev'.action = "DeleteUserPreferences"
              => /\ ev'.err = "nil"
                 /\ ev'.user \notin DOMAIN saved'
                 /\ \A k \in DbUsers \ {ev'.user} : ~RecordDiffers(saved, saved', k)
        /\ \A k \in DbUsers :
              (k \notin DOMAIN saved /\ k \in DOMAIN saved')
                 => ev'.action = "SaveUserPreferences" /\ ev'.user = k]_vars

\* a user whose row was deleted is not found while the other user's row is
\* still there
C22_Witness ==
    /\ ev.kind = "db" /\ ev.action = "GetUserPreferences" /\ ev.db = "ok"
    /\ ev.err = "ErrNoRows"
    /\ ev.user \notin DOMAIN saved
    /\ \E k \in DbUsers \ {ev.user} : k \in DOMAIN saved

-----------------------------------------------------------------------------
(* Concurrent handling.  Bot.Start runs every handler in a goroutine of its *)
(* own.  Two callbacks of one user, sent in the user's private chat, are    *)
(* handled by two goroutines step by step: only getUserState and            *)
(* updateUserState run under b.mu; the handler reads and writes the         *)
(* UserState it got a pointer to outside the lock.                          *)

\* the callbacks handled concurrently: the toggles and the done signals whose
\* question only sets the stage
ConcCallbacks ==
    {<<"property_type", Flat>>, <<"bedrooms", Bed2>>, <<"furnished", Furnished>>,
     <<"bedrooms", Done>>, <<"furnished", Done>>}

AllAt(pcs) == \A g \in Goroutines : gor[g].pc \in pcs

\* the main loop of Start hands two updates of one user to two goroutines
StartRound ==
    /\ ~fatal
    /\ AllAt({"idle", "done"})
    /\ nEvents + 2 <= 2 * MaxRounds
    /\ \E u \in Users, c1 \in ConcCallbacks, c2 \in ConcCallbacks :
          gor' = [g \in Goroutines |->
                    LET c == IF g = 1 THEN c1 ELSE c2
                    IN  [pc |-> "get", user |-> u, chat |-> u,
                         action |-> c[1], arg |-> c[2], tmp |-> FALSE]]
    /\ snap' = state
    /\ nEvents' = nEvents + 2
    /\ UNCHANGED <<state, ev, sent, lastSearch, store, fatal, saved, mu, hung,
                   listings>>

At(g, pc) == ~fatal /\ gor[g].pc = pc

Goto(g, pc) == gor' = [gor EXCEPT ![g].pc = pc]

ConcFrame == UNCHANGED <<ev, sent, lastSearch, store, nEvents, snap,
                         saved, mu, hung, listings>>

\* state := b.getUserState(query.From.ID), then the switch on data[0]
CGetUserState(g) ==
    /\ At(g, "get")
    /\ state' = getUserState(state, gor[g].user)
    /\ Goto(g, IF gor[g].arg = Done THEN "ask_get" ELSE "toggle_read")
    /\ UNCHANGED fatal
    /\ ConcFrame

\* the map of the selection set a callback action toggles
OptionsOf(prefs, action) ==
    CASE action = "property_type" -> prefs.PropertyTypes
      [] action = "bedrooms" -> prefs.BedroomOptions
      [] action = "furnished" -> prefs.FurnishedOptions

WithOptions(tbl, userID, action, options) ==
    CASE action = "property_type" ->
            [tbl EXCEPT ![userID].Preferences.PropertyTypes = options]
      [] action = "bedrooms" ->
            [tbl EXCEPT ![userID].Preferences.BedroomOptions = options]
      [] action = "furnished" ->
            [tbl EXCEPT ![userID].Preferences.FurnishedOptions = options]

\* the right-hand side of options[option] = !options[option]: the map read
CToggleRead(g) ==
    /\ At(g, "toggle_read")
    /\ gor' = [gor EXCEPT
                 ![g].tmp = MapGet(OptionsOf(state[gor[g].user].Preferences,
                                             gor[g].action), gor[g].arg),
                 ![g].pc = "toggle_write"]
    /\ UNCHANGED <<state, fatal>>
    /\ ConcFrame

\* the map write of options[option] = !options[option]
CToggleWrite(g) ==
    /\ At(g, "toggle_write")
    /\ state' = WithOptions(state, gor[g].user, gor[g].action,
                    MapPut(OptionsOf(state[gor[g].user].Preferences, gor[g].action),
                           gor[g].arg, ~gor[g].tmp))
    /\ Goto(g, "update")
    /\ UNCHANGED fatal
    /\ ConcFrame

\* another goroutine is between its read and its write of the same map
Racing(g) ==
    \E h \in Goroutines \ {g} :
        /\ gor[h].pc \in {"toggle_read", "toggle_write"}
        /\ gor[h].user = gor[g].user
        /\ gor[h].action = gor[g].action

\* the write overlaps an access of the other goroutine to the same map: the
\* Go runtime may detect it and abort the process ("concurrent map writes")
CToggleFatal(g) ==
    /\ At(g, "toggle_write")
    /\ Racing(g)
    /\ fatal' = TRUE
    /\ UNCHANGED <<state, gor>>
    /\ ConcFrame

\* askPriceRange / askLocation: state := b.getUserState(chatID)
CAskGet(g) ==
    /\ At(g, "ask_get")
    /\ state' = getUserState(state, gor[g].chat)
    /\ Goto(g, "ask_stage")
    /\ UNCHANGED fatal
    /\ ConcFrame

\* askPriceRange / askLocation: state.Stage = ..., updateUserState, sendMessage
CAskStage(g) ==
    /\ At(g, "ask_stage")
    /\ state' = [state EXCEPT ![gor[g].chat].Stage =
                    IF gor[g].action = "bedrooms" THEN stageAwaitingPriceRange
                    ELSE stageAwaitingLocation]
    /\ Goto(g, "update")
    /\ UNCHANGED fatal
    /\ ConcFrame

\* b.updateUserState(query.From.ID, state) and the answer to the callback
CUpdateUserState(g) ==
    /\ At(g, "update")
    /\ state' = updateUserState(state, gor[g].user, gor[g].user)
    /\ Goto(g, "done")
    /\ UNCHANGED fatal
    /\ ConcFrame

ConcNext ==
    \/ StartRound
    \/ \E g \in Goroutines :
          \/ CGetUserState(g)
          \/ CToggleRead(g)
          \/ CToggleWrite(g)
          \/ CToggleFatal(g)
          \/ CAskGet(g)
          \/ CAskStage(g)
          \/ CUpdateUserState(g)

SpecConc == Init /\ [][ConcNext]_vars

-----------------------------------------------------------------------------
(* The lock of the session table.  Two goroutines handle one callback each, *)
(* of any two users in their private chats, operation by operation:        *)
(* b.mu.Lock() and the deferred b.mu.Unlock() of getUserState and           *)
(* updateUserState are steps of their own, and a call into the storage or   *)
(* the transport may never return.  No preference record is saved in this  *)
(* view, so use_saved_prefs takes the path of a record that is not loaded.  *)

LockUsers == {1, 2}

LockCallbacks == {<<"location", Bath>>, <<"use_saved_prefs", << >> >>}

\* the operations of handleCallbackQuery for location:Bath, in order
summaryProgram ==
    <<"get_user", "set_summary", "update_summary", "get_chat", "send_summary",
      "query", "send_result", "update", "answer">>

\* the operations of handleCallbackQuery for use_saved_prefs when no record
\* is loaded, in order
reuseProgram ==
    <<"get_user", "load_prefs", "send_error", "send_intro", "get_chat",
      "fill_types", "send_question", "set_stage", "update_chat", "update",
      "answer">>

Program(action) == IF action = "location" THEN summaryProgram ELSE reuseProgram

\* calls of getUserState and updateUserState
LockOps == {"get_user", "get_chat", "update_summary", "update_chat", "update"}

\* calls into the storage (database.*) and the transport (b.api.*)
IOOps == {"load_prefs", "query", "send_error", "send_intro", "send_summary",
          "send_result", "send_question", "answer"}

\* assignments to the UserState the handler holds a pointer to
LocalOps == {"set_summary", "fill_types", "set_stage"}

NextPc(action, pc) ==
    LET i == CHOOSE j \in 1..Len(Program(action)) : Program(action)[j] = pc
    IN  IF i = Len(Program(action)) THEN "done" ELSE Program(action)[i + 1]

\* faulty variant: the lock is kept when the function returns
UnlockMissing(g) == g

\* defer b.mu.Unlock(): the holder of the lock after the function returns
Unlock(g) == 0

LFrame == UNCHANGED <<ev, sent, lastSearch, store, snap, fatal, saved, listings>>

LStart ==
    /\ AllAt({"idle", "done"})
    /\ nEvents + 2 <= 2 * MaxRounds
    /\ \E u1 \in LockUsers, u2 \in LockUsers,
          c1 \in LockCallbacks, c2 \in LockCallbacks :
          gor' = [g \in Goroutines |->
                    [pc |-> "get_user",
                     user |-> IF g = 1 THEN u1 ELSE u2,
                     chat |-> IF g = 1 THEN u1 ELSE u2,
                     action |-> IF g = 1 THEN c1[1] ELSE c2[1],
                     arg |-> IF g = 1 THEN c1[2] ELSE c2[2],
                     tmp |-> FALSE]]
    /\ nEvents' = nEvents + 2
    /\ UNCHANGED <<state, mu, hung>>
    /\ LFrame

LAt(g, ops) == g \notin hung /\ gor[g].pc \in ops

LGoto(g) == gor' = [gor EXCEPT ![g].pc = NextPc(gor[g].action, gor[g].pc)]

\* b.mu.Lock()
LLock(g) ==
    /\ LAt(g, LockOps)
    /\ mu = 0
    /\ mu' = g
    /\ UNCHANGED <<state, gor, hung, nEvents>>
    /\ LFrame

\* what the function does to the table while it holds the lock
LockedEffect(tbl, g) ==
    CASE gor[g].pc = "get_user" -> getUserState(tbl, gor[g].user)
      [] gor[g].pc = "get_chat" -> getUserState(tbl, gor[g].chat)
      [] gor[g].pc = "update_chat" -> updateUserState(tbl, gor[g].chat, gor[g].chat)
      [] OTHER -> updateUserState(tbl, gor[g].user, gor[g].user)

\* the body of getUserState or updateUserState and the deferred unlock
LUnlock(g) ==
    /\ LAt(g, LockOps)
    /\ mu = g
    /\ state' = LockedEffect(state, g)
    /\ mu' = Unlock(g)
    /\ LGoto(g)
    /\ UNCHANGED <<hung, nEvents>>
    /\ LFrame

LocalEffect(tbl, g) ==
    CASE gor[g].pc = "set_summary" ->
            [tbl EXCEPT ![gor[g].user].Preferences.Location = Bath,
                        ![gor[g].user].Stage = "showing_summary"]
      [] gor[g].pc = "fill_types" ->
            IF DOMAIN tbl[gor[g].chat].Preferences.PropertyTypes = {}
            THEN [tbl EXCEPT ![gor[g].chat].Preferences.PropertyTypes =
                      [x \in {Flat, House} |-> FALSE]]
            ELSE tbl
      [] OTHER -> [tbl EXCEPT ![gor[g].chat].Stage = stageAwaitingPropertyType]

\* an assignment through the pointer, outside the lock
LLocal(g) ==
    /\ LAt(g, LocalOps)
    /\ state' = LocalEffect(state, g)
    /\ LGoto(g)
    /\ UNCHANGED <<mu, hung, nEvents>>
    /\ LFrame

\* a call into the storage or the transport returns
LReturn(g) ==
    /\ LAt(g, IOOps)
    /\ LGoto(g)
    /\ UNCHANGED <<state, mu, hung, nEvents>>
    /\ LFrame

\* a call into the storage or the transport never returns
LHang(g) ==
    /\ LAt(g, IOOps)
    /\ hung' = hung \cup {g}
    /\ UNCHANGED <<state, mu, gor, nEvents>>
    /\ LFrame

LockNext ==
    \/ LStart
    \/ \E g \in Goroutines :
          \/ LLock(g)
          \/ LUnlock(g)
          \/ LLocal(g)
          \/ LReturn(g)
          \/ LHang(g)

SpecLock == Init /\ [][LockNext]_vars

-----------------------------------------------------------------------------
(* Properties of the concurrent views *)

\* the session table after e1 and then e2 are handled one after the other
Serial(tbl, e1, e2) ==
    LET c0 == [state |-> tbl, sent |-> << >>, search |-> NoSearch,
               saved |-> EmptyMap, db |-> "ok", listings |-> << >>]
        c1 == handleCallbackQuery(c0, e1.user, e1.chat, e1.action, e1.arg, << >>, 0)
    IN  handleCallbackQuery(c1, e2.user, e2.chat, e2.action, e2.arg, << >>, 0).state

\* C3: when the two concurrent handlers of a round have finished, the session
\* table is the one that handling the two events one after the other, in one
\* of the two orders, gives from the table the round began with.
C3_ConcurrentEventsSerializable ==
    AllAt({"done"}) =>
        state \in {Serial(snap, gor[1], gor[2]), Serial(snap, gor[2], gor[1])}

\* goroutine g looks a session up in this step
LookupStep(g) == gor[g].pc \in {"get", "ask_get"} /\ gor'[g].pc # gor[g].pc

\* the identifier goroutine g is about to look up
LookupKey(g) == IF gor[g].pc = "get" THEN gor[g].user ELSE gor[g].chat

\* C11: no step removes a session from the table; a session that appears
\* in the table has stage initial and empty selections; a lookup leaves the
\* identifier it looks up in the table, adds no other identifier and leaves
\* every session already in the table as it is, whatever the other
\* goroutine is doing.
C11_GetOrCreate ==
    [][/\ \A k \in Keys :
             /\ k \in DOMAIN state => k \in DOMAIN state'
             /\ (k \notin DOMAIN state /\ k \in DOMAIN state')
                   => state'[k] = NewUserState
       /\ \A g \in Goroutines :
             LookupStep(g) =>
                /\ LookupKey(g) \in DOMAIN state'
                /\ DOMAIN state' \subseteq (DOMAIN state) \cup {LookupKey(g)}
                /\ \A j \in DOMAIN state : state'[j] = state[j]]_vars

\* one goroutine has looked up a session that holds a selection and a stage
\* of the dialogue while the other one is about to look it up
C11_Witness ==
    /\ \E g, h \in Goroutines :
          /\ gor[g].pc \in {"toggle_read", "ask_stage"}
          /\ gor[h].pc = "get"
          /\ gor[g].user = gor[h].user
          /\ gor[g].user \in DOMAIN state
          /\ state[gor[g].user].Stage # "initial"
          /\ MapGet(state[gor[g].user].Preferences.BedroomOptions, Bed2)

\* C12: a goroutine that is in a call into the storage or the transport
\* does not hold the lock of the session table; so while a goroutine is
\* stuck in such a call, the lock is free or held by the other goroutine
\* whenever that one is in getUserState or updateUserState.
C12_LockNotHeldDuringIO ==
    /\ \A g \in Goroutines : gor[g].pc \in IOOps => mu # g
    /\ \A g \in hung : \A h \in Goroutines \ {g} :
          gor[h].pc \in LockOps => mu \in {0, h}

\* one handler is stuck in its storage query while the handler of another
\* user has run to its end and left that user's session at showing_summary
C12_Witness ==
    \E g \in hung : \E h \in Goroutines \ {g} :
        /\ gor[g].pc = "query"
        /\ gor[h].user # gor[g].user
        /\ gor[h].pc = "done"
        /\ gor[h].action = "location"
        /\ state[gor[h].user].Stage = "showing_summary"

=============================================================================
